---- MODULE Spec2Model ----
(***************************************************************************)
(* Event-sourced task tracker (fabric): event replay, materialization,     *)
(* archival rollup and validation over newline-delimited JSON event logs.  *)
(***************************************************************************)
EXTENDS Integers, Sequences, FiniteSets, TLC

VARIABLES
    now,            \* Utc::now(), in ticks
    events_dir,     \* .fabric/events : day file name -> sequence of lines
    archive_exists, \* .fabric/archive is a directory
    archive_dir,    \* .fabric/archive: month file name -> sequence of lines
    tasks,          \* the HashMap<String, Task> a replay folds over
    replayed,       \* the events handed to apply_event so far
    last,           \* outcome of the latest operation
    prev,           \* outcome of the operation before it
    index_file,     \* .fabric/.index.json: None, or Some(contents)
    state_file,     \* .fabric/.state.json: None, or Some(contents)
    app             \* the App of the terminal browser

vars == <<now, events_dir, archive_exists, archive_dir, tasks, replayed, last, prev,
          index_file, state_file, app>>

----------------------------------------------------------------------------
(* Bounds *)

MaxReplay == 3
MaxLogLines == 3
MaxWrites == 3
MaxRollupLines == 3

----------------------------------------------------------------------------
(* Option<T>: None is the empty sequence, Some(x) the one-element sequence *)

None == <<>>
Some(x) == <<x>>
IsSome(o) == Len(o) = 1
IsNone(o) == Len(o) = 0
Unwrap(o) == o[1]

----------------------------------------------------------------------------
(* serde_json::Value, as far as the program looks into it *)

Absent == [t |-> "absent", s |-> "", n |-> 0, a |-> <<>>]
JNull == [t |-> "null", s |-> "", n |-> 0, a |-> <<>>]
JStr(x) == [t |-> "str", s |-> x, n |-> 0, a |-> <<>>]
JNum(k) == [t |-> "num", s |-> "", n |-> k, a |-> <<>>]
JArr(xs) == [t |-> "arr", s |-> "", n |-> 0, a |-> xs]
\* an RFC 3339 string naming the instant ts
JTime(ts) == [t |-> "str", s |-> "rfc3339", n |-> ts, a |-> <<>>]

Keys ==
    {"title", "description", "priority", "tags", "assignee", "parent",
     "blocks", "blocked_by", "to", "body", "ref", "rel", "target", "resolution"}

EmptyDoc == [k \in Keys |-> Absent]
Doc(r) == r @@ EmptyDoc

as_str(v) == IF v.t = "str" THEN Some(v.s) ELSE None
as_array(v) == IF v.t = "arr" THEN Some(v.a) ELSE None
as_u64(v) == IF v.t = "num" /\ v.n >= 0 THEN Some(v.n) ELSE None
is_present(v) == v.t # "absent"

\* arr.iter().filter_map(|v| v.as_str().map(String::from)).collect()
StrItems(arr) ==
    LET sel == SelectSeq(arr, LAMBDA x : x.t = "str")
    IN  [i \in 1..Len(sel) |-> sel[i].s]

OrElse(o, dflt) == IF IsSome(o) THEN Unwrap(o) ELSE dflt
Contains(seq, x) == \E i \in 1..Len(seq) : seq[i] = x

----------------------------------------------------------------------------
(* Calendar: DateTime formatting *)

TicksPerDay == 2
DaysPerMonth == 2

\* ts.format("%Y-%m-%d"): the day number of an instant
FormatDate(ts) == ts \div TicksPerDay
\* day file name -> the month it lies in
MonthOfDay(d) == d \div DaysPerMonth
\* ts.format("%Y-%m"): the month key of an instant, as the string a payload carries
MonthNumber(ts) == MonthOfDay(FormatDate(ts))
FormatMonth(ts) == ToString(MonthNumber(ts))

----------------------------------------------------------------------------
(* Event and Operation *)

Operations ==
    {"create", "update", "assign", "comment", "link", "unlink",
     "complete", "reopen", "archive"}

Ev(op, id, ts, by, branch, d) ==
    [v |-> 1, op |-> op, id |-> id, ts |-> ts, by |-> by, branch |-> branch, d |-> d]

----------------------------------------------------------------------------
(* apply_event *)

CreateTask(event) ==
    LET d == event.d IN
    [id |-> event.id,
     title |-> OrElse(as_str(d["title"]), ""),
     description |-> as_str(d["description"]),
     status |-> "open",
     priority |-> as_str(d["priority"]),
     tags |-> IF IsSome(as_array(d["tags"])) THEN StrItems(d["tags"].a) ELSE <<>>,
     assignee |-> as_str(d["assignee"]),
     created |-> event.ts,
     created_by |-> event.by,
     created_branch |-> event.branch,
     updated |-> event.ts,
     completed |-> None,
     resolution |-> None,
     parent |-> as_str(d["parent"]),
     blocks |-> IF IsSome(as_array(d["blocks"])) THEN StrItems(d["blocks"].a) ELSE <<>>,
     blocked_by |-> IF IsSome(as_array(d["blocked_by"])) THEN StrItems(d["blocked_by"].a) ELSE <<>>,
     comments |-> <<>>,
     archived |-> None]

\* Update as a replacement: an optional field the payload lacks is reset
UpdateTask_replace(task, event) ==
    LET d == event.d IN
    [task EXCEPT
        !.title = IF IsSome(as_str(d["title"])) THEN d["title"].s ELSE @,
        !.description = as_str(d["description"]),
        !.priority = as_str(d["priority"]),
        !.tags = IF IsSome(as_array(d["tags"])) THEN StrItems(d["tags"].a) ELSE @,
        !.updated = event.ts]

UpdateTask(task, event) ==
    LET d == event.d IN
    [task EXCEPT
        !.title = IF IsSome(as_str(d["title"])) THEN d["title"].s ELSE @,
        !.description = IF IsSome(as_str(d["description"])) THEN Some(d["description"].s) ELSE @,
        !.priority = IF IsSome(as_str(d["priority"])) THEN Some(d["priority"].s) ELSE @,
        !.tags = IF IsSome(as_array(d["tags"])) THEN StrItems(d["tags"].a) ELSE @,
        !.updated = event.ts]

\* Assign that clears the assignee on an explicit null only
AssignTask_null_only(task, event) ==
    [task EXCEPT
        !.assignee = IF IsSome(as_str(event.d["to"])) THEN as_str(event.d["to"])
                     ELSE IF event.d["to"] = JNull THEN None ELSE @,
        !.updated = event.ts]

AssignTask(task, event) ==
    [task EXCEPT
        !.assignee = as_str(event.d["to"]),
        !.updated = event.ts]

\* Comment that puts the new comment first
CommentTask_prepend(task, event) ==
    [task EXCEPT
        !.comments = <<[ts |-> event.ts,
                        by |-> event.by,
                        body |-> OrElse(as_str(event.d["body"]), ""),
                        ref |-> as_str(event.d["ref"])]>> \o @,
        !.updated = event.ts]

CommentTask(task, event) ==
    [task EXCEPT
        !.comments = Append(@, [ts |-> event.ts,
                                by |-> event.by,
                                body |-> OrElse(as_str(event.d["body"]), ""),
                                ref |-> as_str(event.d["ref"])]),
        !.updated = event.ts]

\* Link that stamps updated only when rel and target are both strings
LinkTask_stamp_when_read(task, event) ==
    LET rel == as_str(event.d["rel"])
        target == as_str(event.d["target"])
        both == IsSome(rel) /\ IsSome(target)
    IN
    [task EXCEPT
        !.blocks = IF both /\ rel = Some("blocks") /\ ~Contains(@, Unwrap(target))
                   THEN Append(@, Unwrap(target)) ELSE @,
        !.blocked_by = IF both /\ rel = Some("blocked_by") /\ ~Contains(@, Unwrap(target))
                       THEN Append(@, Unwrap(target)) ELSE @,
        !.parent = IF both /\ rel = Some("parent") THEN target ELSE @,
        !.updated = IF both THEN event.ts ELSE @]

LinkTask(task, event) ==
    LET rel == as_str(event.d["rel"])
        target == as_str(event.d["target"])
        both == IsSome(rel) /\ IsSome(target)
    IN
    [task EXCEPT
        !.blocks = IF both /\ rel = Some("blocks") /\ ~Contains(@, Unwrap(target))
                   THEN Append(@, Unwrap(target)) ELSE @,
        !.blocked_by = IF both /\ rel = Some("blocked_by") /\ ~Contains(@, Unwrap(target))
                       THEN Append(@, Unwrap(target)) ELSE @,
        !.parent = IF both /\ rel = Some("parent") THEN target ELSE @,
        !.updated = event.ts]

\* Unlink that clears the parent whatever it is
UnlinkTask_any_parent(task, event) ==
    LET rel == as_str(event.d["rel"])
        target == as_str(event.d["target"])
        both == IsSome(rel) /\ IsSome(target)
    IN
    [task EXCEPT
        !.blocks = IF both /\ rel = Some("blocks")
                   THEN SelectSeq(@, LAMBDA x : x # Unwrap(target)) ELSE @,
        !.blocked_by = IF both /\ rel = Some("blocked_by")
                       THEN SelectSeq(@, LAMBDA x : x # Unwrap(target)) ELSE @,
        !.parent = IF both /\ rel = Some("parent") THEN None ELSE @,
        !.updated = event.ts]

UnlinkTask(task, event) ==
    LET rel == as_str(event.d["rel"])
        target == as_str(event.d["target"])
        both == IsSome(rel) /\ IsSome(target)
    IN
    [task EXCEPT
        !.blocks = IF both /\ rel = Some("blocks")
                   THEN SelectSeq(@, LAMBDA x : x # Unwrap(target)) ELSE @,
        !.blocked_by = IF both /\ rel = Some("blocked_by")
                       THEN SelectSeq(@, LAMBDA x : x # Unwrap(target)) ELSE @,
        !.parent = IF both /\ rel = Some("parent") /\ @ = target THEN None ELSE @,
        !.updated = event.ts]

\* Complete honoured only on an open task: the first completion is kept
CompleteTask_keep_first(task, event) ==
    IF task.status = "complete" THEN [task EXCEPT !.updated = event.ts]
    ELSE [task EXCEPT
        !.status = "complete",
        !.completed = Some(event.ts),
        !.resolution = Some(OrElse(as_str(event.d["resolution"]), "done")),
        !.updated = event.ts]

\* Complete that records a resolution only when the payload names one
CompleteTask_resolution_optional(task, event) ==
    [task EXCEPT
        !.status = "complete",
        !.completed = Some(event.ts),
        !.resolution = as_str(event.d["resolution"]),
        !.updated = event.ts]

CompleteTask(task, event) ==
    [task EXCEPT
        !.status = "complete",
        !.completed = Some(event.ts),
        !.resolution = Some(OrElse(as_str(event.d["resolution"]), "done")),
        !.updated = event.ts]

\* Reopen that leaves the resolution of the completion behind
ReopenTask_keeps_resolution(task, event) ==
    [task EXCEPT
        !.status = "open",
        !.completed = None,
        !.updated = event.ts]

ReopenTask(task, event) ==
    [task EXCEPT
        !.status = "open",
        !.completed = None,
        !.resolution = None,
        !.updated = event.ts]

ArchiveTask(task, event) ==
    [task EXCEPT
        !.archived = as_str(event.d["ref"]),
        !.updated = event.ts]

\* the effect of a non-Create operation on the task it finds
TouchTask(task, event) ==
    CASE event.op = "update" -> UpdateTask(task, event)
      [] event.op = "assign" -> AssignTask(task, event)
      [] event.op = "comment" -> CommentTask(task, event)
      [] event.op = "link" -> LinkTask(task, event)
      [] event.op = "unlink" -> UnlinkTask(task, event)
      [] event.op = "complete" -> CompleteTask(task, event)
      [] event.op = "reopen" -> ReopenTask(task, event)
      [] event.op = "archive" -> ArchiveTask(task, event)

\* tasks.insert(id, task)
Insert(map, id, task) == (id :> task) @@ map

\* apply_event with a Create that an existing id turns away: first Create wins
apply_event_first_create_wins(map, event) ==
    IF event.op = "create"
    THEN IF event.id \in DOMAIN map THEN map ELSE Insert(map, event.id, CreateTask(event))
    ELSE IF event.id \in DOMAIN map
         THEN [map EXCEPT ![event.id] = TouchTask(@, event)]
         ELSE map

\* apply_event with upsert semantics: an operation on an unknown id starts a task
apply_event_upsert(map, event) ==
    IF event.op = "create"
    THEN Insert(map, event.id, CreateTask(event))
    ELSE IF event.id \in DOMAIN map
         THEN [map EXCEPT ![event.id] = TouchTask(@, event)]
         ELSE Insert(map, event.id, TouchTask(CreateTask(event), event))

apply_event(map, event) ==
    IF event.op = "create"
    THEN Insert(map, event.id, CreateTask(event))
    ELSE IF event.id \in DOMAIN map
         THEN [map EXCEPT ![event.id] = TouchTask(@, event)]
         ELSE map

RECURSIVE apply_events(_, _)
apply_events(map, events) ==
    IF events = <<>> THEN map
    ELSE apply_events(apply_event(map, Head(events)), Tail(events))

----------------------------------------------------------------------------
(* Lines of a log file *)

\* a line holding a JSON object; each envelope field is the value found, or Absent
JsonLine(v, op, id, ts, by, branch, has_d, d) ==
    [kind |-> "json", v |-> v, op |-> op, id |-> id, ts |-> ts, by |-> by,
     branch |-> branch, has_d |-> has_d, d |-> d]

\* a line of whitespace only
BlankLine ==
    [kind |-> "blank", v |-> Absent, op |-> Absent, id |-> Absent, ts |-> Absent,
     by |-> Absent, branch |-> Absent, has_d |-> FALSE, d |-> EmptyDoc]

\* a line that is not JSON
GarbageLine ==
    [kind |-> "garbage", v |-> Absent, op |-> Absent, id |-> Absent, ts |-> Absent,
     by |-> Absent, branch |-> Absent, has_d |-> FALSE, d |-> EmptyDoc]

\* serde_json::to_string(&event)
to_string(e) ==
    JsonLine(JNum(e.v), JStr(e.op), JStr(e.id), JTime(e.ts), JStr(e.by),
             JStr(e.branch), TRUE, e.d)

\* DateTime::parse_from_rfc3339(ts).is_ok(), and chrono's Deserialize for DateTime<Utc>
IsTimestamp(v) == v.t = "str" /\ v.s = "rfc3339"

\* serde_json::from_str::<Event>(&line).is_ok()
IsEvent(line) ==
    /\ line.kind = "json"
    /\ IsSome(as_u64(line.v))
    /\ line.op.t = "str" /\ line.op.s \in Operations
    /\ line.id.t = "str"
    /\ IsTimestamp(line.ts)
    /\ line.by.t = "str"
    /\ line.branch.t = "str"
    /\ line.has_d

\* serde_json::from_str::<Event>(&line), where it succeeds
from_str(line) ==
    [v |-> line.v.n, op |-> line.op.s, id |-> line.id.s, ts |-> line.ts.n,
     by |-> line.by.s, branch |-> line.branch.s, d |-> line.d]

\* 1-based numbers of the lines of a file that parse_events_from_file rejects
BadLines(lines) ==
    {i \in 1..Len(lines) : lines[i].kind # "blank" /\ ~IsEvent(lines[i])}

Min(S) == CHOOSE x \in S : \A y \in S : x <= y

\* a reader that numbers the lines it parses, leaving blank lines uncounted
parse_events_from_file_uncounted(lines) ==
    IF BadLines(lines) # {}
    THEN [ok |-> FALSE,
          line |-> Len(SelectSeq(SubSeq(lines, 1, Min(BadLines(lines))), LAMBDA l : l.kind # "blank")),
          events |-> <<>>]
    ELSE LET kept == SelectSeq(lines, LAMBDA l : l.kind # "blank")
         IN  [ok |-> TRUE, line |-> 0, events |-> [i \in 1..Len(kept) |-> from_str(kept[i])]]

\* FabricContext::parse_events_from_file: Err names the first rejected line and
\* carries no event; Ok carries one event per non-blank line, in line order
parse_events_from_file(lines) ==
    IF BadLines(lines) # {}
    THEN [ok |-> FALSE, line |-> Min(BadLines(lines)), events |-> <<>>]
    ELSE LET kept == SelectSeq(lines, LAMBDA l : l.kind # "blank")
         IN  [ok |-> TRUE, line |-> 0, events |-> [i \in 1..Len(kept) |-> from_str(kept[i])]]

----------------------------------------------------------------------------
(* Directory listings *)

\* files.sort(): insertion of one path into a sorted vector
RECURSIVE InsertSorted(_, _)
InsertSorted(sorted, f) ==
    IF sorted = <<>> THEN <<f>>
    ELSE IF f <= Head(sorted) THEN <<f>> \o sorted
    ELSE <<Head(sorted)>> \o InsertSorted(Tail(sorted), f)

RECURSIVE SortFiles(_)
SortFiles(listing) ==
    IF listing = <<>> THEN <<>>
    ELSE InsertSorted(SortFiles(Tail(listing)), Head(listing))

\* the orders in which fs::read_dir may enumerate a directory
Listings(names) ==
    {l \in [1..Cardinality(names) -> names] : \A i, j \in DOMAIN l : i # j => l[i] # l[j]}

\* get_event_files without the sort: the files in the order read_dir gave them
get_event_files_unsorted(listing) == listing

\* FabricContext::get_event_files, given the order read_dir enumerated the files in
get_event_files(listing) == SortFiles(listing)

\* FabricContext::get_archive_files; no directory, no files
get_archive_files(exists, listing) == IF exists THEN SortFiles(listing) ELSE <<>>

----------------------------------------------------------------------------
(* materialize *)

\* the daily files read before the rollups
ReadOrder_events_first(alisting, elisting, aexists) ==
    LET af == get_archive_files(aexists, alisting)
        ef == get_event_files(elisting)
    IN  [i \in 1..Len(ef) |-> <<"events", ef[i]>>] \o [i \in 1..Len(af) |-> <<"archive", af[i]>>]

\* the files materialize reads, in the order it reads them:
\* <<group, file name>> with group "archive" or "events"
ReadOrder(alisting, elisting, aexists) ==
    LET af == get_archive_files(aexists, alisting)
        ef == get_event_files(elisting)
    IN  [i \in 1..Len(af) |-> <<"archive", af[i]>>] \o [i \in 1..Len(ef) |-> <<"events", ef[i]>>]

FileLines(edir, adir, f) == IF f[1] = "archive" THEN adir[f[2]] ELSE edir[f[2]]

\* the fold of materialize over the files still to read; applied collects
\* <<group, file, line number, event>> for every event handed to apply_event
RECURSIVE MaterializeFrom(_, _, _, _, _)
MaterializeFrom(files, edir, adir, map, applied) ==
    IF files = <<>> THEN [ok |-> TRUE, tasks |-> map, applied |-> applied, file |-> <<>>, line |-> 0]
    ELSE LET f == Head(files)
             lines == FileLines(edir, adir, f)
             parsed == parse_events_from_file(lines)
             nonblank == SelectSeq([i \in 1..Len(lines) |-> i], LAMBDA i : lines[i].kind # "blank")
         IN  IF ~parsed.ok
             THEN [ok |-> FALSE, tasks |-> <<>>, applied |-> applied, file |-> f, line |-> parsed.line]
             ELSE MaterializeFrom(Tail(files), edir, adir,
                                  apply_events(map, parsed.events),
                                  applied \o [i \in 1..Len(nonblank) |->
                                                 <<f[1], f[2], nonblank[i], parsed.events[i]>>])

\* materialize(ctx), given the orders read_dir enumerated the two directories in
materialize(edir, adir, aexists, elisting, alisting) ==
    MaterializeFrom(ReadOrder(alisting, elisting, aexists), edir, adir, <<>>, <<>>)

----------------------------------------------------------------------------
(* The terminal browser: App *)

\* a.cmp(b) on the priority strings the logs hold: their place in byte order
PriorityRank(p) == CASE p = "p0" -> 0 [] p = "p1" -> 1 [] p = "p2" -> 2 [] p = "p3" -> 3

\* the comparator of tasks.sort_by is Less: priority, "p3" when unset, then created
SortsBefore(a, b) ==
    LET pa == PriorityRank(OrElse(a.priority, "p3"))
        pb == PriorityRank(OrElse(b.priority, "p3"))
    IN  pa < pb \/ (pa = pb /\ a.created < b.created)

\* tasks.sort_by(..): a stable sort; ids stand for the tasks
RECURSIVE InsertByPriority(_, _, _)
InsertByPriority(sorted, id, map) ==
    IF sorted = <<>> THEN <<id>>
    ELSE IF SortsBefore(map[id], map[Head(sorted)])
         THEN <<id>> \o sorted
         ELSE <<Head(sorted)>> \o InsertByPriority(Tail(sorted), id, map)

RECURSIVE SortByPriority(_, _)
SortByPriority(ids, map) ==
    IF ids = <<>> THEN <<>>
    ELSE InsertByPriority(SortByPriority(SubSeq(ids, 1, Len(ids) - 1), map), ids[Len(ids)], map)

\* the filter closure of reload_tasks
Shown(task, status_filter) ==
    CASE status_filter = "Open" -> task.status = "open"
      [] status_filter = "Complete" -> task.status = "complete"
      [] status_filter = "All" -> TRUE

\* state.tasks.into_values().filter(..).collect() and the sort, given the order
\* in which the HashMap iterates
Listed(map, status_filter, iteration) ==
    LET ids == SortByPriority(SelectSeq(iteration, LAMBDA id : Shown(map[id], status_filter)), map)
    IN  [i \in 1..Len(ids) |-> map[ids[i]]]

\* App::new() once the state is loaded
new(map, iteration) ==
    [tasks |-> Listed(map, "Open", iteration),
     selected |-> 0,
     focus |-> "TaskList",
     show_detail |-> FALSE,
     status_filter |-> "Open"]

\* reload_tasks that leaves the selection where it was
reload_tasks_unclamped(self, loaded, iteration) ==
    IF ~loaded.ok THEN self
    ELSE [self EXCEPT !.tasks = Listed(loaded.tasks, self.status_filter, iteration)]

\* App::reload_tasks, given what load_or_materialize_state returned; on Err the
\* App is left as it was
reload_tasks(self, loaded, iteration) ==
    IF ~loaded.ok THEN self
    ELSE LET listed == Listed(loaded.tasks, self.status_filter, iteration)
         IN  [self EXCEPT
                 !.tasks = listed,
                 !.selected = IF @ >= Len(listed) /\ listed # <<>> THEN Len(listed) - 1 ELSE @]

next_task(self) ==
    IF self.tasks # <<>>
    THEN [self EXCEPT !.selected = IF @ + 1 < Len(self.tasks) - 1 THEN @ + 1
                                   ELSE Len(self.tasks) - 1]
    ELSE self

\* selected.saturating_sub(1)
previous_task(self) == [self EXCEPT !.selected = IF @ = 0 THEN 0 ELSE @ - 1]

first_task(self) == [self EXCEPT !.selected = 0]

last_task(self) ==
    IF self.tasks # <<>> THEN [self EXCEPT !.selected = Len(self.tasks) - 1] ELSE self

toggle_focus(self) ==
    [self EXCEPT !.focus = IF @ = "TaskList" THEN "Detail" ELSE "TaskList"]

toggle_detail(self) == [self EXCEPT !.show_detail = ~@]

----------------------------------------------------------------------------
(* Replay: apply_event, one event at a time, over any event sequence *)

TaskIds == {"T1", "T2"}

NoOutcome == [op |-> "none"]

\* payloads an event of each operation is replayed with
ReplayPayloads(op) ==
    CASE op = "create" -> {Doc([title |-> JStr("Fix bug")]),
                           Doc([title |-> JStr("Fix bug"), tags |-> JArr(<<JStr("ui")>>),
                                blocks |-> JArr(<<JStr("T2"), JStr("T2")>>)])}
      [] op = "update" -> {Doc([title |-> JStr("Fix it")])}
      [] op = "assign" -> {Doc([to |-> JStr("bob")])}
      [] op = "comment" -> {Doc([body |-> JStr("wip")])}
      [] op = "link" -> {Doc([rel |-> JStr("blocks"), target |-> JStr("T2")]),
                         Doc([rel |-> JStr("blocked_by"), target |-> JStr("T3")])}
      [] op = "unlink" -> {Doc([rel |-> JStr("blocks"), target |-> JStr("T2")])}
      [] op = "complete" -> {EmptyDoc,
                             Doc([resolution |-> JStr("wontfix")]),
                             Doc([resolution |-> JNum(1)])}
      [] op = "reopen" -> {EmptyDoc}
      [] op = "archive" -> {Doc([ref |-> JStr("0")])}

\* the instants an event of each operation is stamped with
ReplayTimes(op) == IF op \in {"complete", "reopen"} THEN {3, 4} ELSE {3}

ReplayEvents ==
    UNION {{Ev(op, id, ts, "alice", "main", d) :
                id \in TaskIds, ts \in ReplayTimes(op), d \in ReplayPayloads(op)}
           : op \in Operations}

ReplayInit ==
    /\ now = 0
    /\ events_dir = <<>>
    /\ archive_exists = FALSE
    /\ archive_dir = <<>>
    /\ tasks = <<>>
    /\ replayed = <<>>
    /\ last = NoOutcome
    /\ prev = NoOutcome
    /\ index_file = None
    /\ state_file = None
    /\ app = new(<<>>, <<>>)

\* one iteration of the loop of apply_events
Replay(event) ==
    /\ Len(replayed) < MaxReplay
    /\ tasks' = apply_event(tasks, event)
    /\ replayed' = Append(replayed, event)
    /\ last' = [op |-> "apply_event", event |-> event, before |-> tasks]
    /\ prev' = last
    /\ UNCHANGED <<app, index_file, state_file, now, events_dir, archive_exists, archive_dir>>

ReplayNext == \E event \in ReplayEvents : Replay(event)

SpecReplay == ReplayInit /\ [][ReplayNext]_vars

CreatedIds(events) == {events[i].id : i \in {j \in 1..Len(events) : events[j].op = "create"}}

\* C1: after replaying any event sequence a task id is in the map iff the
\* sequence holds a Create for it; a non-Create operation on an id without an
\* earlier Create leaves the whole map unchanged, and no operation removes a task.
C1_CreateGating ==
    /\ DOMAIN tasks = CreatedIds(replayed)
    /\ last.op = "apply_event" =>
        /\ DOMAIN last.before \subseteq DOMAIN tasks
        /\ (last.event.op # "create" /\ last.event.id \notin DOMAIN last.before)
              => tasks = last.before

\* an Archive on a created task and, before it, an operation on an id never created
C1_Witness ==
    /\ Len(replayed) = 3
    /\ replayed[1].op = "create" /\ replayed[1].id = "T1"
    /\ replayed[2].op = "archive" /\ replayed[2].id = "T1"
    /\ replayed[3].op # "create" /\ replayed[3].id = "T2"
    /\ DOMAIN tasks = {"T1"}

----------------------------------------------------------------------------
(* Log files written from outside (editors, merges, other tools) and replayed *)

\* the file opened with create(true).truncate(true) instead of append(true)
AppendLines_truncate(dir, f, lines) == (f :> lines) @@ dir

\* OpenOptions::new().create(true).append(true) followed by writeln!, for each line
AppendLines(dir, f, lines) ==
    IF f \in DOMAIN dir THEN [dir EXCEPT ![f] = @ \o lines] ELSE (f :> lines) @@ dir

TotalLines(dir) ==
    LET RECURSIVE Sum(_)
        Sum(S) == IF S = {} THEN 0
                  ELSE LET f == CHOOSE x \in S : TRUE IN Len(dir[f]) + Sum(S \ {f})
    IN  Sum(DOMAIN dir)

LogDays == {1, 2}
LogMonths == {0}

\* the lines a log of the materialize runs may hold
LogLines ==
    {to_string(Ev(op, "T1", 3, "alice", "main", EmptyDoc)) : op \in {"create", "complete", "reopen"}}
    \cup {to_string(Ev("comment", "T1", 3, "alice", "main", Doc([body |-> JStr("wip")]))),
          to_string(Ev("archive", "T1", 3, "alice", "main", Doc([ref |-> JStr("0")]))),
          BlankLine, GarbageLine}

LogInit ==
    /\ now = 0
    /\ events_dir = <<>>
    /\ archive_exists = FALSE
    /\ archive_dir = <<>>
    /\ tasks = <<>>
    /\ replayed = <<>>
    /\ last = NoOutcome
    /\ prev = NoOutcome
    /\ index_file = None
    /\ state_file = None
    /\ app = new(<<>>, <<>>)

\* an external writer appends a line to a daily log
WriteEventLine(f, line) ==
    /\ TotalLines(events_dir) + TotalLines(archive_dir) < MaxLogLines
    /\ events_dir' = AppendLines(events_dir, f, <<line>>)
    /\ last' = [op |-> "write"]
    /\ prev' = last
    /\ UNCHANGED <<app, index_file, state_file, now, archive_exists, archive_dir, tasks, replayed>>

\* an external writer appends a line to a monthly rollup
WriteArchiveLine(f, line) ==
    /\ TotalLines(events_dir) + TotalLines(archive_dir) < MaxLogLines
    /\ archive_exists' = TRUE
    /\ archive_dir' = AppendLines(archive_dir, f, <<line>>)
    /\ last' = [op |-> "write"]
    /\ prev' = last
    /\ UNCHANGED <<app, index_file, state_file, now, events_dir, tasks, replayed>>

\* one call of materialize; the directories are enumerated in any order
Materialize ==
    /\ \E el \in Listings(DOMAIN events_dir), al \in Listings(DOMAIN archive_dir) :
          last' = [op |-> "materialize"] @@ materialize(events_dir, archive_dir, archive_exists, el, al)
    /\ prev' = last
    /\ UNCHANGED <<app, index_file, state_file, now, events_dir, archive_exists, archive_dir, tasks, replayed>>

MaterializeNext ==
    \/ \E f \in LogDays, line \in LogLines : WriteEventLine(f, line)
    \/ \E f \in LogMonths, line \in LogLines : WriteArchiveLine(f, line)
    \/ Materialize

SpecMaterialize == LogInit /\ [][MaterializeNext]_vars

\* C2: two runs of materialize over the same files give the same outcome and
\* the same task map, whatever order the directories were enumerated in.
C2_Deterministic ==
    (last.op = "materialize" /\ prev.op = "materialize")
        => (last.ok = prev.ok /\ last.tasks = prev.tasks)

\* two successful runs over two daily files whose order decides the result
C2_Witness ==
    /\ last.op = "materialize" /\ prev.op = "materialize" /\ last.ok
    /\ DOMAIN events_dir = {1, 2}
    /\ "T1" \in DOMAIN last.tasks
    /\ last.tasks["T1"].status = "complete"
    /\ events_dir[2][Len(events_dir[2])].op.s = "complete"

\* position <<group, file, line, event>> p is read before position q
ReadBefore(p, q) ==
    \/ p[1] = "archive" /\ q[1] = "events"
    \/ p[1] = q[1] /\ p[2] < q[2]
    \/ p[1] = q[1] /\ p[2] = q[2] /\ p[3] < q[3]

NonBlank(dir) ==
    UNION {{<<f, i>> : i \in {k \in 1..Len(dir[f]) : dir[f][k].kind # "blank"}} : f \in DOMAIN dir}

\* C3: materialize applies every archive event before any daily event, files of
\* a group in ascending name order, lines of a file in line order; a successful
\* run applies every non-blank line once.
C3_ReplayOrder ==
    last.op = "materialize" =>
        /\ \A i, j \in 1..Len(last.applied) : i < j => ReadBefore(last.applied[i], last.applied[j])
        /\ last.ok =>
            /\ {<<p[2], p[3]>> : p \in {last.applied[i] : i \in {j \in 1..Len(last.applied) : last.applied[j][1] = "events"}}}
                  = NonBlank(events_dir)
            /\ {<<p[2], p[3]>> : p \in {last.applied[i] : i \in {j \in 1..Len(last.applied) : last.applied[j][1] = "archive"}}}
                  = NonBlank(archive_dir)
            /\ \A i \in 1..Len(last.applied) :
                  LET p == last.applied[i] IN
                  p[4] = from_str(FileLines(events_dir, archive_dir, <<p[1], p[2]>>)[p[3]])

\* a run that read a rollup and two daily files
C3_Witness ==
    /\ last.op = "materialize" /\ last.ok
    /\ Len(last.applied) = 3
    /\ last.applied[1][1] = "archive"
    /\ last.applied[2][2] = 1
    /\ last.applied[3][2] = 2

----------------------------------------------------------------------------
(* archive_tasks *)

\* Utc::now() - chrono::Duration::days(days)
Cutoff(clock, days) == clock - days * TicksPerDay

\* the filter with completed <= cutoff
Eligible_inclusive(task, cutoff) ==
    /\ task.status = "complete"
    /\ IsSome(task.completed) /\ Unwrap(task.completed) <= cutoff
    /\ IsNone(task.archived)

\* the filter closure of archive_tasks
Eligible(task, cutoff) ==
    /\ task.status = "complete"
    /\ IsSome(task.completed) /\ Unwrap(task.completed) < cutoff
    /\ IsNone(task.archived)

\* to_archive.sort_by_key(|t| t.completed): a stable sort; ids stand for the tasks
RECURSIVE InsertByCompleted(_, _, _)
InsertByCompleted(sorted, id, map) ==
    IF sorted = <<>> THEN <<id>>
    ELSE IF Unwrap(map[id].completed) < Unwrap(map[Head(sorted)].completed)
         THEN <<id>> \o sorted
         ELSE <<Head(sorted)>> \o InsertByCompleted(Tail(sorted), id, map)

RECURSIVE SortByCompleted(_, _)
SortByCompleted(ids, map) ==
    IF ids = <<>> THEN <<>>
    ELSE InsertByCompleted(SortByCompleted(SubSeq(ids, 1, Len(ids) - 1), map), ids[Len(ids)], map)

\* state.tasks.values().filter(..).collect() and the sort, given the order in
\* which the HashMap iterates
to_archive(map, cutoff, iteration) ==
    SortByCompleted(SelectSeq(iteration, LAMBDA id : Eligible(map[id], cutoff)), map)

\* the events of the daily files in discovery order, or the failure to parse one
RECURSIVE EventsOfFiles(_, _)
EventsOfFiles(files, edir) ==
    IF files = <<>> THEN [ok |-> TRUE, events |-> <<>>]
    ELSE LET parsed == parse_events_from_file(edir[Head(files)])
             rest == EventsOfFiles(Tail(files), edir)
         IN  IF parsed.ok /\ rest.ok
             THEN [ok |-> TRUE, events |-> parsed.events \o rest.events]
             ELSE [ok |-> FALSE, events |-> <<>>]

\* collect_all_events(ctx): the events of the daily files in discovery order
collect_all_events(edir, elisting) == EventsOfFiles(get_event_files(elisting), edir)

\* only the events that made the task eligible
EventsOfTask_deciding(all_events, id) ==
    SelectSeq(all_events, LAMBDA e : e.id = id /\ e.op \in {"create", "complete"})

\* all_events.get(id): every collected event with that id, in discovery order
EventsOfTask(all_events, id) == SelectSeq(all_events, LAMBDA e : e.id = id)

\* the lines written to the rollup of one month: for each task of the month, in
\* to_archive order, every event collected for it
RECURSIVE RollupLines(_, _, _, _)
RollupLines(order, month, map, all_events) ==
    IF order = <<>> THEN <<>>
    ELSE LET id == Head(order)
             evs == EventsOfTask(all_events, id)
             mine == IF MonthNumber(Unwrap(map[id].completed)) = month
                     THEN [i \in 1..Len(evs) |-> to_string(evs[i])] ELSE <<>>
         IN  mine \o RollupLines(Tail(order), month, map, all_events)

\* the rollup files after the loop over by_month
RECURSIVE WriteRollups(_, _, _, _, _)
WriteRollups(months, adir, order, map, all_events) ==
    IF months = {} THEN adir
    ELSE LET m == Min(months)
         IN  WriteRollups(months \ {m},
                          AppendLines(adir, m, RollupLines(order, m, map, all_events)),
                          order, map, all_events)

\* get_current_branch(), given what running git did
GitOutcomes == {"spawn_error", "exit_failure", "success"}
\* what running git may do in a call of archive_tasks, which runs it only once
\* it has something to write
GitAsked(map, cutoff, dry_run) ==
    IF dry_run \/ \A id \in DOMAIN map : ~Eligible(map[id], cutoff)
    THEN {"not_run"} ELSE GitOutcomes
get_current_branch(git) ==
    IF git = "spawn_error" THEN [ok |-> FALSE, branch |-> ""]
    ELSE IF git = "success" THEN [ok |-> TRUE, branch |-> "dev"]
    ELSE [ok |-> TRUE, branch |-> "main"]

\* the synthetic Archive event of one selected task
ArchiveMarker(task, clock, branch) ==
    [v |-> 1, op |-> "archive", id |-> task.id, ts |-> clock, by |-> "@fabric",
     branch |-> branch, d |-> Doc([ref |-> JStr(FormatMonth(Unwrap(task.completed)))])]

\* a dry run that returns after fs::create_dir_all
DryRun_after_mkdir(order, edir, adir, aexists) ==
    [ok |-> TRUE, ret |-> order, events_dir |-> edir, archive_exists |-> TRUE, archive_dir |-> adir]

\* the return of archive_tasks under dry_run
DryRun(order, edir, adir, aexists) ==
    [ok |-> TRUE, ret |-> order, events_dir |-> edir, archive_exists |-> aexists, archive_dir |-> adir]

\* archive_tasks after materialize succeeded with the map given: the value
\* returned and the files left behind
archive_tasks(edir, adir, aexists, clock, days, dry_run, map, iteration, elisting, git) ==
    LET order == to_archive(map, Cutoff(clock, days), iteration)
        unchanged == [events_dir |-> edir, archive_exists |-> aexists, archive_dir |-> adir]
        months == {MonthNumber(Unwrap(map[order[i]].completed)) : i \in 1..Len(order)}
        collected == collect_all_events(edir, elisting)
        rolled == WriteRollups(months, adir, order, map, collected.events)
        today == FormatDate(clock)
        branch == get_current_branch(git)
        markers == [i \in 1..Len(order) |-> to_string(ArchiveMarker(map[order[i]], clock, branch.branch))]
    IN  IF order = <<>> THEN [ok |-> TRUE, ret |-> <<>>] @@ unchanged
        ELSE IF dry_run THEN DryRun(order, edir, adir, aexists)
        ELSE IF ~collected.ok
             THEN [ok |-> FALSE, ret |-> <<>>, events_dir |-> edir,
                   archive_exists |-> TRUE, archive_dir |-> adir]
        ELSE IF ~branch.ok
             THEN [ok |-> FALSE, ret |-> <<>>, events_dir |-> AppendLines(edir, today, <<>>),
                   archive_exists |-> TRUE, archive_dir |-> rolled]
             ELSE [ok |-> TRUE, ret |-> order, events_dir |-> AppendLines(edir, today, markers),
                   archive_exists |-> TRUE, archive_dir |-> rolled]

----------------------------------------------------------------------------
(* The archiver over daily logs written from outside *)

Clock == 7
CutoffDays == {0, 1}

\* the daily logs found at the start: none, or today's log holding the whole
\* history of one finished task
InitialLogs ==
    {<<>>,
     (FormatDate(Clock) :> <<to_string(Ev("create", "T2", 0, "bob", "main", EmptyDoc)),
             to_string(Ev("complete", "T2", 1, "bob", "main", EmptyDoc))>>)}

ArchiveLogLines ==
    {to_string(Ev("create", id, 0, "alice", "main", EmptyDoc)) : id \in TaskIds}
    \cup {to_string(Ev("comment", "T1", 0, "alice", "main", Doc([body |-> JStr("wip")])))}
    \cup {to_string(Ev("complete", "T1", ts, "alice", "main", EmptyDoc)) : ts \in {1, 5}}

\* the lines an external writer may append to a daily log: anything to today's
\* log, and the history of one task to a log dated after today
WritePlaces ==
    ({FormatDate(Clock)} \X ArchiveLogLines)
    \cup ({FormatDate(Clock) + 1} \X {to_string(Ev("create", "T1", 0, "alice", "main", EmptyDoc)),
                  to_string(Ev("complete", "T1", 1, "alice", "main", EmptyDoc))})

\* the number of lines the external writer has appended
Written(dir) ==
    LET RECURSIVE Sum(_)
        Sum(S) == IF S = {} THEN 0
                  ELSE LET f == CHOOSE x \in S : TRUE
                       IN  Len(SelectSeq(dir[f], LAMBDA l : l.by = JStr("alice"))) + Sum(S \ {f})
    IN  Sum(DOMAIN dir)

Init ==
    /\ now = Clock
    /\ events_dir \in InitialLogs
    /\ archive_exists = FALSE
    /\ archive_dir = <<>>
    /\ tasks = <<>>
    /\ replayed = <<>>
    /\ last = NoOutcome
    /\ prev = NoOutcome
    /\ index_file = None
    /\ state_file = None
    /\ app = new(<<>>, <<>>)

\* an external writer appends an event to a daily log; the logs explored are
\* those written before the archiver first writes a rollup
WriteEvent(f, line) ==
    /\ Written(events_dir) < MaxWrites
    /\ ~archive_exists
    /\ events_dir' = AppendLines(events_dir, f, <<line>>)
    /\ last' = [op |-> "write"]
    /\ UNCHANGED <<app, index_file, state_file, now, archive_exists, archive_dir, tasks, replayed, prev>>

\* one call of archive_tasks(ctx, days, dry_run)
ArchiveTasks(days, dry_run) ==
    /\ TotalLines(archive_dir) <= MaxRollupLines
    /\ \E el \in Listings(DOMAIN events_dir), al \in Listings(DOMAIN archive_dir) :
        LET state == materialize(events_dir, archive_dir, archive_exists, el, al)
        IN
            /\ state.ok
            /\ \E iteration \in Listings(DOMAIN state.tasks),
                  git \in GitAsked(state.tasks, Cutoff(now, days), dry_run) :
                  LET r == archive_tasks(events_dir, archive_dir, archive_exists, now, days,
                                         dry_run, state.tasks, iteration, el, git)
                  IN  /\ events_dir' = r.events_dir
                      /\ archive_exists' = r.archive_exists
                      /\ archive_dir' = r.archive_dir
                      /\ last' = [op |-> "archive", days |-> days, dry_run |-> dry_run,
                                  ok |-> r.ok, ret |-> r.ret, state |-> state.tasks,
                                  git |-> git,
                                  events_before |-> events_dir,
                                  archive_before |-> archive_dir,
                                  archive_existed |-> archive_exists]
                      /\ UNCHANGED <<app, index_file, state_file, now, tasks, replayed, prev>>

Next ==
    \/ \E place \in WritePlaces : WriteEvent(place[1], place[2])
    \/ \E days \in CutoffDays, dry_run \in BOOLEAN : ArchiveTasks(days, dry_run)

Spec == Init /\ [][Next]_vars

----------------------------------------------------------------------------
(* validate *)

\* one entry of ValidationResult.errors or .warnings: the kind of message, the
\* file <<group, name>> and line it names, and the field or task ids it names
Finding(kind, filename, line_num, what) ==
    [kind |-> kind, file |-> filename, line |-> line_num, what |-> what]

\* the required envelope fields a JSON line lacks, in the order they are checked
MissingFields(line) ==
    LET present == [v |-> is_present(line.v), op |-> is_present(line.op), id |-> is_present(line.id),
                    ts |-> is_present(line.ts), by |-> is_present(line.by),
                    branch |-> is_present(line.branch), d |-> line.has_d]
    IN  SelectSeq(<<"v", "op", "id", "ts", "by", "branch", "d">>, LAMBDA field : ~present[field])

\* create tracking that enters the id of every event into the set
TrackCreate_first_seen(op, id, filename, line_num, created) ==
    [warnings |-> IF op = "create" /\ id \in created
                  THEN <<Finding("duplicate_create", filename, line_num, <<id>>)>>
                  ELSE IF op # "create" /\ id \notin created
                  THEN <<Finding("before_create", filename, line_num, <<id>>)>>
                  ELSE <<>>,
     created |-> created \cup {id}]

\* "Track creates for orphan detection", for a line whose op and id are strings:
\* the warnings pushed and created_ids afterwards
TrackCreate(op, id, filename, line_num, created) ==
    [warnings |-> IF op = "create" /\ id \in created
                  THEN <<Finding("duplicate_create", filename, line_num, <<id>>)>>
                  ELSE IF op # "create" /\ id \notin created
                  THEN <<Finding("before_create", filename, line_num, <<id>>)>>
                  ELSE <<>>,
     created |-> IF op = "create" THEN created \cup {id} ELSE created]

\* the body of the loop of validate_event_file for one line; acc holds errors,
\* warnings and created_ids
ValidateLine(line, filename, line_num, acc) ==
    IF line.kind = "blank" THEN acc
    ELSE IF line.kind = "garbage"
    THEN [acc EXCEPT !.errors = Append(@, Finding("invalid_json", filename, line_num, <<>>))]
    ELSE
    LET missing == MissingFields(line)
        missing_errors == [i \in 1..Len(missing) |-> Finding("missing_field", filename, line_num, <<missing[i]>>)]
        version == as_u64(line.v)
        version_warnings == IF IsSome(version) /\ Unwrap(version) # 1
                            THEN <<Finding("unknown_version", filename, line_num, <<>>)>> ELSE <<>>
        op == as_str(line.op)
        id == as_str(line.id)
        tracked == IsSome(op) /\ IsSome(id)
        track == IF tracked
                 THEN TrackCreate(Unwrap(op), Unwrap(id), filename, line_num, acc.created)
                 ELSE [warnings |-> <<>>, created |-> acc.created]
        ts_errors == IF IsSome(as_str(line.ts)) /\ ~IsTimestamp(line.ts)
                     THEN <<Finding("invalid_timestamp", filename, line_num, <<>>)>> ELSE <<>>
    IN  [errors |-> acc.errors \o missing_errors \o ts_errors,
         warnings |-> acc.warnings \o version_warnings \o track.warnings,
         created |-> track.created]

\* validate_event_file, from line line_num on
RECURSIVE validate_event_file(_, _, _, _)
validate_event_file(lines, filename, line_num, acc) ==
    IF line_num > Len(lines) THEN acc
    ELSE validate_event_file(lines, filename, line_num + 1,
                             ValidateLine(lines[line_num], filename, line_num, acc))

\* the files validate scans, in the order it scans them
ScanOrder(alisting, elisting, aexists) ==
    LET af == get_archive_files(aexists, alisting)
        ef == get_event_files(elisting)
    IN  [i \in 1..Len(ef) |-> <<"events", ef[i]>>] \o [i \in 1..Len(af) |-> <<"archive", af[i]>>]

\* the two loops of validate over the files
RECURSIVE ScanFiles(_, _, _, _)
ScanFiles(files, edir, adir, acc) ==
    IF files = <<>> THEN acc
    ELSE ScanFiles(Tail(files), edir, adir,
                   validate_event_file(FileLines(edir, adir, Head(files)), Head(files), 1, acc))

\* an orphaned-reference check that looks at the links and not at the parent
DanglingOfTask_links_only(task, map) ==
    LET bb == SelectSeq(task.blocked_by, LAMBDA x : x \notin DOMAIN map)
        bl == SelectSeq(task.blocks, LAMBDA x : x \notin DOMAIN map)
    IN  [i \in 1..Len(bb) |-> Finding("dangling_blocked_by", <<"state", 0>>, 0, <<task.id, bb[i]>>)]
        \o [i \in 1..Len(bl) |-> Finding("dangling_blocks", <<"state", 0>>, 0, <<task.id, bl[i]>>)]

\* the warnings of the orphaned-reference check for one task
DanglingOfTask(task, map) ==
    LET bb == SelectSeq(task.blocked_by, LAMBDA x : x \notin DOMAIN map)
        bl == SelectSeq(task.blocks, LAMBDA x : x \notin DOMAIN map)
    IN  [i \in 1..Len(bb) |-> Finding("dangling_blocked_by", <<"state", 0>>, 0, <<task.id, bb[i]>>)]
        \o [i \in 1..Len(bl) |-> Finding("dangling_blocks", <<"state", 0>>, 0, <<task.id, bl[i]>>)]
        \o (IF IsSome(task.parent) /\ Unwrap(task.parent) \notin DOMAIN map
            THEN <<Finding("dangling_parent", <<"state", 0>>, 0, <<task.id, Unwrap(task.parent)>>)>> ELSE <<>>)

\* the orphaned-reference check over state.tasks.values(), given the order the
\* HashMap iterates in
RECURSIVE Dangling(_, _)
Dangling(iteration, map) ==
    IF iteration = <<>> THEN <<>>
    ELSE DanglingOfTask(map[Head(iteration)], map) \o Dangling(Tail(iteration), map)

\* validate(ctx, strict), given the materialized state and the iteration order:
\* ok is whether it returns Ok(result)
validate(edir, adir, aexists, strict, elisting, alisting, state, iteration) ==
    LET scanned == ScanFiles(ScanOrder(alisting, elisting, aexists), edir, adir,
                             [errors |-> <<>>, warnings |-> <<>>, created |-> {}])
        errors == scanned.errors
        warnings == IF state.ok THEN scanned.warnings \o Dangling(iteration, state.tasks)
                    ELSE scanned.warnings
    IN  IF ~state.ok
        THEN [ok |-> FALSE, failure |-> "parse", errors |-> errors, warnings |-> warnings]
        ELSE IF strict /\ errors # <<>>
        THEN [ok |-> FALSE, failure |-> "errors", errors |-> errors, warnings |-> warnings]
        ELSE IF strict /\ warnings # <<>>
        THEN [ok |-> FALSE, failure |-> "warnings", errors |-> errors, warnings |-> warnings]
        ELSE [ok |-> TRUE, failure |-> "none", errors |-> errors, warnings |-> warnings]

----------------------------------------------------------------------------
(* The validator over logs written from outside *)

ValidateDays == {1}
ValidateMonths == {0}

\* lines of every class the validator tells apart
ValidateLines ==
    {to_string(Ev("create", "T1", 3, "alice", "main", EmptyDoc)),
     to_string(Ev("link", "T1", 3, "alice", "main",
                  Doc([rel |-> JStr("blocked_by"), target |-> JStr("T2")]))),
     to_string(Ev("create", "T2", 3, "alice", "main", Doc([parent |-> JStr("T3")]))),
     \* schema version 2
     [to_string(Ev("comment", "T1", 3, "alice", "main", EmptyDoc)) EXCEPT !.v = JNum(2)],
     \* a schema version that is no number
     [to_string(Ev("comment", "T1", 3, "alice", "main", EmptyDoc)) EXCEPT !.v = JStr("2")],
     \* no actor
     [to_string(Ev("comment", "T1", 3, "alice", "main", EmptyDoc)) EXCEPT !.by = Absent],
     \* a timestamp that is no date-time
     [to_string(Ev("comment", "T1", 3, "alice", "main", EmptyDoc)) EXCEPT !.ts = JStr("yesterday")],
     \* an operation the Event type does not know
     [to_string(Ev("comment", "T1", 3, "alice", "main", EmptyDoc)) EXCEPT !.op = JStr("delete")],
     BlankLine,
     GarbageLine}

\* one call of validate(ctx, strict)
Validate(strict) ==
    /\ \E el \in Listings(DOMAIN events_dir), al \in Listings(DOMAIN archive_dir) :
          LET state == materialize(events_dir, archive_dir, archive_exists, el, al)
          IN  \E iteration \in Listings(IF state.ok THEN DOMAIN state.tasks ELSE {}) :
                  last' = [op |-> "validate", strict |-> strict, state |-> state,
                           scanned |-> ScanOrder(al, el, archive_exists),
                           created |-> ScanFiles(ScanOrder(al, el, archive_exists),
                                                 events_dir, archive_dir,
                                                 [errors |-> <<>>, warnings |-> <<>>,
                                                  created |-> {}]).created]
                          @@ validate(events_dir, archive_dir, archive_exists, strict, el, al,
                                      state, iteration)
    /\ prev' = last
    /\ UNCHANGED <<app, index_file, state_file, now, events_dir, archive_exists, archive_dir, tasks, replayed>>

ValidateNext ==
    \/ \E f \in ValidateDays, line \in ValidateLines : WriteEventLine(f, line)
    \/ \E f \in ValidateMonths, line \in ValidateLines : WriteArchiveLine(f, line)
    \/ \E strict \in BOOLEAN : Validate(strict)

SpecValidate == LogInit /\ [][ValidateNext]_vars

\* the lines of the logs that are malformed: not JSON, lacking an envelope field,
\* carrying an unparseable timestamp, or not deserializing to an Event
MalformedLines(dir) ==
    UNION {{<<f, i>> : i \in {k \in 1..Len(dir[f]) :
                                 dir[f][k].kind # "blank" /\ ~IsEvent(dir[f][k])}} : f \in DOMAIN dir}

\* C10 (as claimed): in non-strict mode validate succeeds whatever the logs hold,
\* and every malformed line is recorded as an error of the result.
C10_NonStrictAlwaysSucceeds ==
    (last.op = "validate" /\ ~last.strict) =>
        /\ last.ok
        /\ \A p \in MalformedLines(events_dir) :
              \E i \in 1..Len(last.errors) :
                  last.errors[i].file = <<"events", p[1]>> /\ last.errors[i].line = p[2]
        /\ \A p \in MalformedLines(archive_dir) :
              \E i \in 1..Len(last.errors) :
                  last.errors[i].file = <<"archive", p[1]>> /\ last.errors[i].line = p[2]

----------------------------------------------------------------------------
(* Claims about archive_tasks *)

IsPrefix(a, b) == Len(a) <= Len(b) /\ SubSeq(b, 1, Len(a)) = a
FileOrEmpty(dir, f) == IF f \in DOMAIN dir THEN dir[f] ELSE <<>>
\* what a call appended to file f
Appended(before, after, f) ==
    SubSeq(FileOrEmpty(after, f), Len(FileOrEmpty(before, f)) + 1, Len(FileOrEmpty(after, f)))
Elems(seq) == {seq[i] : i \in 1..Len(seq)}

\* the events of a directory of well-formed logs: files by ascending name, lines in order
DiscoveryOrder(dir) ==
    LET RECURSIVE From(_)
        From(S) == IF S = {} THEN <<>>
                   ELSE LET f == Min(S)
                            kept == SelectSeq(dir[f], LAMBDA l : l.kind # "blank")
                        IN  [i \in 1..Len(kept) |-> from_str(kept[i])] \o From(S \ {f})
    IN  From(DOMAIN dir)

ArchiveRan == last.op = "archive"
ArchiveWrote == last.op = "archive" /\ ~last.dry_run /\ last.ok /\ last.ret # <<>>
Today == now \div TicksPerDay
\* the task ids eligible in a task map: complete, completed before the cutoff, not archived
EligibleIds(map, days) ==
    {id \in DOMAIN map :
        /\ map[id].status = "complete"
        /\ map[id].completed # <<>>
        /\ map[id].completed[1] < now - days * TicksPerDay
        /\ map[id].archived = <<>>}
\* the task maps materialize may give on the files as they are now
StatesNow ==
    {materialize(events_dir, archive_dir, archive_exists, el, al) :
        el \in Listings(DOMAIN events_dir), al \in Listings(DOMAIN archive_dir)}

\* C4 (as claimed): after a successful non-dry-run archive_tasks with cutoff N, an
\* archive_tasks with the same cutoff and clock selects no task.
C4_IdempotentSelection ==
    (last.op = "archive" /\ ~last.dry_run /\ last.ok) =>
        \A st \in StatesNow : st.ok /\ EligibleIds(st.tasks, last.days) = {}

\* C5 (as claimed): a dry run changes no file and returns exactly the list any
\* non-dry-run call on the same logs at the same time returns.
C5_DryRunExactList ==
    (ArchiveRan /\ last.dry_run) =>
        /\ events_dir = last.events_before
        /\ archive_dir = last.archive_before
        /\ archive_exists = last.archive_existed
        /\ \A iteration \in Listings(DOMAIN last.state) :
              last.ret = to_archive(last.state, Cutoff(now, last.days), iteration)

\* C5 (amended): a dry run changes no file (no archive directory, no rollup, no
\* line of a daily log) and returns a list a non-dry-run call on the same logs at
\* the same time can return: the same task ids, oldest completed first, tasks
\* completed at the same instant in either order.
C5_DryRun ==
    (ArchiveRan /\ last.dry_run) =>
        /\ events_dir = last.events_before
        /\ archive_dir = last.archive_before
        /\ archive_exists = last.archive_existed
        /\ last.ok
        /\ \E iteration \in Listings(DOMAIN last.state) :
              last.ret = to_archive(last.state, Cutoff(now, last.days), iteration)
        /\ Elems(last.ret) = EligibleIds(last.state, last.days)

\* a dry run that selected two tasks completed at the same instant
C5_Witness ==
    /\ ArchiveRan /\ last.dry_run
    /\ Len(last.ret) = 2
    /\ last.state[last.ret[1]].completed = last.state[last.ret[2]].completed
    /\ ~archive_exists

\* C6: a non-dry-run archive_tasks only appends: every daily log and every rollup
\* it found is a prefix of what it leaves, only today's daily log grows, and the
\* events copied into a rollup are still in the daily logs.
C6_AdditiveOnly ==
    (ArchiveRan /\ ~last.dry_run) =>
        /\ \A f \in DOMAIN last.events_before :
              f \in DOMAIN events_dir /\ IsPrefix(last.events_before[f], events_dir[f])
        /\ \A f \in DOMAIN last.archive_before :
              f \in DOMAIN archive_dir /\ IsPrefix(last.archive_before[f], archive_dir[f])
        /\ \A f \in DOMAIN events_dir :
              f # Today => (f \in DOMAIN last.events_before /\ events_dir[f] = last.events_before[f])
        /\ \A m \in DOMAIN archive_dir :
              \A line \in Elems(Appended(last.archive_before, archive_dir, m)) :
                  \E f \in DOMAIN events_dir : \E i \in 1..Len(events_dir[f]) :
                      events_dir[f][i] = line

\* a run that appended to a rollup and to a daily log that both held lines
C6_Witness ==
    /\ ArchiveWrote
    /\ \E m \in DOMAIN last.archive_before :
          last.archive_before[m] # <<>> /\ Len(archive_dir[m]) > Len(last.archive_before[m])
    /\ Today \in DOMAIN last.events_before
    /\ last.events_before[Today] # <<>>
    /\ Len(events_dir[Today]) > Len(last.events_before[Today])

\* C7: a successful non-dry-run archive_tasks appends, to the rollup of the month
\* of each selected task's completed timestamp, every event of that task found in
\* the daily logs, in discovery order, and appends no event of any other task.
C7_RollupHoldsWholeHistory ==
    ArchiveWrote =>
        /\ \A id \in Elems(last.ret) : \A m \in DOMAIN archive_dir :
              LET added == SelectSeq(Appended(last.archive_before, archive_dir, m),
                                     LAMBDA l : l.id = JStr(id))
                  history == SelectSeq(DiscoveryOrder(last.events_before), LAMBDA e : e.id = id)
              IN  IF m = (last.state[id].completed[1] \div TicksPerDay) \div DaysPerMonth
                  THEN added = [i \in 1..Len(history) |-> to_string(history[i])]
                  ELSE added = <<>>
        /\ \A id \in Elems(last.ret) :
              (last.state[id].completed[1] \div TicksPerDay) \div DaysPerMonth \in DOMAIN archive_dir
        /\ \A m \in DOMAIN archive_dir :
              \A line \in Elems(Appended(last.archive_before, archive_dir, m)) :
                  line.id.s \in Elems(last.ret)

\* a run that archived a commented task while another task stayed unselected
C7_Witness ==
    /\ ArchiveWrote
    /\ last.ret = <<"T1">>
    /\ "T2" \in DOMAIN last.state
    /\ \E m \in DOMAIN archive_dir :
          \E i \in 1..Len(archive_dir[m]) : archive_dir[m][i].op = JStr("comment")

\* C8 (as claimed): a successful non-dry-run archive_tasks appends to today's log
\* exactly one Archive event per selected task and none for another task, each
\* with schema version 1, actor "@fabric" and ref the month of the task's
\* completed timestamp, and a following materialize gives each selected task
\* archived = that month.
C8_OneMarkerPerTask ==
    ArchiveWrote =>
        LET added == Appended(last.events_before, events_dir, Today) IN
        /\ Len(added) = Len(last.ret)
        /\ \A id \in Elems(last.ret) :
              Cardinality({i \in 1..Len(added) : added[i].id = JStr(id)}) = 1
        /\ \A i \in 1..Len(added) :
              /\ added[i].kind = "json"
              /\ added[i].id.s \in Elems(last.ret)
              /\ added[i].v = JNum(1)
              /\ added[i].op = JStr("archive")
              /\ added[i].by = JStr("@fabric")
              /\ added[i].d["ref"] = JStr(FormatMonth(last.state[added[i].id.s].completed[1]))
        /\ \A st \in StatesNow : \A id \in Elems(last.ret) :
              /\ st.ok
              /\ id \in DOMAIN st.tasks
              /\ st.tasks[id].archived = <<FormatMonth(last.state[id].completed[1])>>

\* C9: archive_tasks selects exactly the materialized tasks that are complete,
\* completed strictly before now minus the cutoff days, and not archived, returns
\* their ids oldest completed first, and when none qualifies returns the empty
\* list and writes nothing.
C9_Selection ==
    (ArchiveRan /\ (last.ok \/ last.dry_run)) =>
        /\ Elems(last.ret) = EligibleIds(last.state, last.days)
        /\ Len(last.ret) = Cardinality(EligibleIds(last.state, last.days))
        /\ \A i, j \in 1..Len(last.ret) :
              i < j => last.state[last.ret[i]].completed[1] <= last.state[last.ret[j]].completed[1]
        /\ last.ret = <<>> =>
              /\ events_dir = last.events_before
              /\ archive_dir = last.archive_before
              /\ archive_exists = last.archive_existed

\* a run that selected one task and left out a task completed exactly at the cutoff
C9_Witness ==
    /\ ArchiveRan /\ last.ok
    /\ last.ret = <<"T2">>
    /\ "T1" \in DOMAIN last.state
    /\ last.state["T1"].status = "complete"
    /\ last.state["T1"].completed = <<now - last.days * TicksPerDay>>
    /\ last.state["T1"].archived = <<>>

----------------------------------------------------------------------------
(* Claims about single operations of apply_event *)

Count(seq, x) == Cardinality({i \in 1..Len(seq) : seq[i] = x})
\* the latest step applied an event of operation op to a task that existed
Applied(op) ==
    /\ last.op = "apply_event"
    /\ last.event.op = op
    /\ last.event.id \in DOMAIN last.before

\* C18 (as claimed): after a Link with rel blocks or blocked_by and target X on
\* any existing task, the list named by rel contains X exactly once, and when X
\* was already in the list the list and its order are unchanged.
C18_LinkSetSemantics ==
    (Applied("link") /\ last.event.d["rel"].s \in {"blocks", "blocked_by"}) =>
        LET rel == last.event.d["rel"].s
            X == last.event.d["target"].s
            before == last.before[last.event.id][rel]
            after == tasks[last.event.id][rel]
        IN  /\ Count(after, X) = 1
            /\ Contains(before, X) => after = before
            /\ ~Contains(before, X) => after = Append(before, X)

\* C19: Complete followed by Reopen on an existing task gives status open,
\* completed and resolution absent, updated = the Reopen's timestamp, and every
\* other field as it was before the Complete.
C19_CompleteThenReopen ==
    (/\ Applied("reopen")
     /\ prev.op = "apply_event" /\ prev.event.op = "complete"
     /\ prev.event.id = last.event.id
     /\ prev.event.id \in DOMAIN prev.before) =>
        LET id == last.event.id
            t0 == prev.before[id]
            t2 == tasks[id]
        IN  /\ t2.status = "open"
            /\ t2.completed = <<>>
            /\ t2.resolution = <<>>
            /\ t2.updated = last.event.ts
            /\ \A field \in DOMAIN t0 \ {"status", "completed", "resolution", "updated"} :
                  t2[field] = t0[field]

\* a task with tags and links completed with a resolution at one instant and
\* reopened at a later one
C19_Witness ==
    /\ Applied("reopen")
    /\ prev.op = "apply_event" /\ prev.event.op = "complete"
    /\ prev.event.id = last.event.id
    /\ prev.event.id \in DOMAIN prev.before
    /\ prev.event.d["resolution"] = JStr("wontfix")
    /\ prev.event.ts < last.event.ts
    /\ prev.before[last.event.id].tags # <<>>
    /\ tasks[last.event.id].status = "open"

\* C20: a Complete on an existing task sets status complete, completed = the
\* event's timestamp and resolution = the payload's resolution when it is a
\* string, "done" otherwise; on a task already complete the later event's
\* values replace the earlier ones.
C20_Complete ==
    Applied("complete") =>
        LET t == tasks[last.event.id]
            r == last.event.d["resolution"]
        IN  /\ t.status = "complete"
            /\ t.completed = <<last.event.ts>>
            /\ t.resolution = <<IF r.t = "str" THEN r.s ELSE "done">>
            /\ t.updated = last.event.ts

\* a task completed with the default resolution, then completed again later
\* with a resolution of its own
C20_Witness ==
    /\ Applied("complete")
    /\ last.before[last.event.id].status = "complete"
    /\ last.before[last.event.id].resolution = <<"done">>
    /\ last.before[last.event.id].completed = <<3>>
    /\ tasks[last.event.id].completed = <<4>>
    /\ tasks[last.event.id].resolution = <<"wontfix">>

----------------------------------------------------------------------------
(* Claims about reading malformed logs *)

\* the lines <<group, file, line number>> of the logs that are neither blank nor
\* an Event; a rollup is read only when the archive directory exists
Unparseable ==
    UNION {{<<"events", f, i>> : i \in BadLines(events_dir[f])} : f \in DOMAIN events_dir}
    \cup UNION {{<<"archive", f, i>> : i \in BadLines(archive_dir[f])} :
                    f \in IF archive_exists THEN DOMAIN archive_dir ELSE {}}

\* C15: a non-blank line that is no Event makes the read of its file fail with
\* the file and the 1-based number of the line (blank lines counted) and yield no
\* event of that file, and materialize returns that failure and no State.
C15_ParseFailureAborts ==
    last.op = "materialize" =>
        /\ last.ok <=> Unparseable = {}
        /\ ~last.ok =>
            /\ last.tasks = <<>>
            /\ <<last.file[1], last.file[2], last.line>> \in Unparseable
            /\ \A p \in Unparseable :
                  ~ReadBefore(p, <<last.file[1], last.file[2], last.line>>)
            /\ \A i \in 1..Len(last.applied) :
                  <<last.applied[i][1], last.applied[i][2]>> # last.file

\* a daily log holding an event, a blank line and a line that is not JSON
C15_Witness ==
    /\ last.op = "materialize" /\ ~last.ok
    /\ last.line = 3
    /\ last.file[1] = "events"
    /\ IsEvent(events_dir[last.file[2]][1])
    /\ events_dir[last.file[2]][2] = BlankLine
    /\ events_dir[last.file[2]][3] = GarbageLine

----------------------------------------------------------------------------
(* Claims about validate *)

ValidateRan == last.op = "validate"
WithKind(findings, kinds) == {k \in 1..Len(findings) : findings[k].kind \in kinds}

\* C11 (as claimed): in strict mode validate fails iff the result holds an error
\* or a warning, reporting the error count when there is an error, the warning
\* count when there are only warnings, and succeeds with neither; the strict
\* flag does not change the errors and warnings recorded.
C11_StrictOutcome ==
    /\ (ValidateRan /\ last.strict) =>
          /\ last.ok <=> (last.errors = <<>> /\ last.warnings = <<>>)
          /\ last.errors # <<>> => last.failure = "errors"
          /\ (last.errors = <<>> /\ last.warnings # <<>>) => last.failure = "warnings"
    /\ (ValidateRan /\ prev.op = "validate") =>
          /\ last.errors = prev.errors
          /\ Elems(last.warnings) = Elems(prev.warnings)
          /\ Len(last.warnings) = Len(prev.warnings)

\* the lines <<group, file, line number>> the scan tracks: JSON lines whose op and
\* id are strings
Tracked ==
    {p \in UNION {{<<"events", f, i>> : i \in 1..Len(events_dir[f])} : f \in DOMAIN events_dir}
            \cup UNION {{<<"archive", f, i>> : i \in 1..Len(archive_dir[f])} :
                            f \in IF archive_exists THEN DOMAIN archive_dir ELSE {}} :
        LET l == FileLines(events_dir, archive_dir, <<p[1], p[2]>>)[p[3]]
        IN  l.kind = "json" /\ l.op.t = "str" /\ l.id.t = "str"}

LineAt(p) == FileLines(events_dir, archive_dir, <<p[1], p[2]>>)[p[3]]

\* line p is scanned before line q: daily logs before rollups, files of a group
\* by name, lines of a file in order
ScanBefore(p, q) ==
    \/ p[1] = "events" /\ q[1] = "archive"
    \/ p[1] = q[1] /\ p[2] < q[2]
    \/ p[1] = q[1] /\ p[2] = q[2] /\ p[3] < q[3]

CreatedEarlier(p) ==
    \E q \in Tracked :
        ScanBefore(q, p) /\ LineAt(q).op.s = "create" /\ LineAt(q).id = LineAt(p).id

WarningsAt(kind, p) ==
    Cardinality({k \in 1..Len(last.warnings) :
        last.warnings[k] = Finding(kind, <<p[1], p[2]>>, p[3], <<LineAt(p).id.s>>)})

\* C12: in the scan a Create for an id created earlier gets exactly one
\* duplicate-create warning, a non-Create for an id not created earlier exactly one
\* event-before-create warning, no other line gets either, every Create leaves its
\* id in the created set, and neither is recorded as an error.
C12_CreateTracking ==
    ValidateRan =>
        /\ \A p \in Tracked :
              /\ WarningsAt("duplicate_create", p)
                    = IF LineAt(p).op.s = "create" /\ CreatedEarlier(p) THEN 1 ELSE 0
              /\ WarningsAt("before_create", p)
                    = IF LineAt(p).op.s # "create" /\ ~CreatedEarlier(p) THEN 1 ELSE 0
        /\ Cardinality(WithKind(last.warnings, {"duplicate_create", "before_create"}))
              = Cardinality({p \in Tracked :
                    \/ LineAt(p).op.s = "create" /\ CreatedEarlier(p)
                    \/ LineAt(p).op.s # "create" /\ ~CreatedEarlier(p)})
        /\ last.created = {LineAt(p).id.s : p \in {q \in Tracked : LineAt(q).op.s = "create"}}
        /\ WithKind(last.errors, {"duplicate_create", "before_create"}) = {}

\* a scan that met an event before its task's Create and then the Create twice
C12_Witness ==
    /\ ValidateRan
    /\ WithKind(last.warnings, {"duplicate_create"}) # {}
    /\ WithKind(last.warnings, {"before_create"}) # {}
    /\ last.created = {"T1"}

IndexIn(seq, x) == CHOOSE i \in 1..Len(seq) : seq[i] = x

\* C13 (as claimed): the scan visits the daily logs and then the rollups, and
\* that is the order in which materialize replays the events.
C13_ScanOrderIsReplayOrder ==
    (ValidateRan /\ last.state.ok) =>
        /\ \A i, j \in 1..Len(last.scanned) :
              i < j => ~(last.scanned[i][1] = "archive" /\ last.scanned[j][1] = "events")
        /\ \A i, j \in 1..Len(last.state.applied) :
              i < j => IndexIn(last.scanned, <<last.state.applied[i][1], last.state.applied[i][2]>>)
                          <= IndexIn(last.scanned, <<last.state.applied[j][1], last.state.applied[j][2]>>)

DanglingKind(field) ==
    CASE field = "blocked_by" -> "dangling_blocked_by"
      [] field = "blocks" -> "dangling_blocks"
      [] field = "parent" -> "dangling_parent"

\* the references of a task under a field, as a sequence
References(task, field) == IF field = "parent" THEN task.parent ELSE task[field]

\* C14: when the scan is over and the logs materialize, validate has one
\* warning per entry of blocked_by, per entry of blocks and per parent that is not
\* a task of the map, none for a reference to a task of the map, and records none
\* of them as an error.
C14_DanglingReferences ==
    (ValidateRan /\ last.state.ok) =>
        LET map == last.state.tasks
            kinds == {"dangling_blocked_by", "dangling_blocks", "dangling_parent"}
        IN  /\ \A id \in DOMAIN map : \A field \in {"blocked_by", "blocks", "parent"} :
                  \A x \in Elems(References(map[id], field)) :
                      Cardinality({k \in 1..Len(last.warnings) :
                          last.warnings[k] = Finding(DanglingKind(field), <<"state", 0>>, 0, <<id, x>>)})
                        = IF x \in DOMAIN map THEN 0 ELSE Count(References(map[id], field), x)
            /\ \A k \in WithKind(last.warnings, kinds) :
                  \E id \in DOMAIN map : \E field \in {"blocked_by", "blocks", "parent"} :
                      /\ last.warnings[k].kind = DanglingKind(field)
                      /\ last.warnings[k].what[1] = id
                      /\ Contains(References(map[id], field), last.warnings[k].what[2])
                      /\ last.warnings[k].what[2] \notin DOMAIN map
            /\ WithKind(last.errors, kinds) = {}

\* a task blocked by an existing task, whose blocker names a parent never created
C14_Witness ==
    /\ ValidateRan /\ last.state.ok
    /\ DOMAIN last.state.tasks = {"T1", "T2"}
    /\ last.state.tasks["T1"].blocked_by = <<"T2">>
    /\ last.state.tasks["T2"].parent = <<"T3">>
    /\ Len(last.warnings) = 1
    /\ last.warnings[1].kind = "dangling_parent"

----------------------------------------------------------------------------
(* build_index *)

\* the tuple task_info holds for a task: (status, created, updated, completed, archived)
IndexInfo(status, created, updated, completed, archived) ==
    [status |-> status, created |-> created, updated |-> updated,
     completed |-> completed, archived |-> archived]

\* the match on event.op with a Reopen that leaves the completed date in place
index_event_reopen_keeps(task_info, event) ==
    LET date == FormatDate(event.ts)
        id == event.id
    IN  IF event.op = "create"
        THEN Insert(task_info, id, IndexInfo("open", date, date, None, None))
        ELSE IF id \notin DOMAIN task_info THEN task_info
        ELSE CASE event.op = "complete" ->
                    [task_info EXCEPT ![id].status = "complete", ![id].updated = date,
                                      ![id].completed = Some(date)]
               [] event.op = "reopen" ->
                    [task_info EXCEPT ![id].status = "open", ![id].updated = date]
               [] event.op = "archive" ->
                    [task_info EXCEPT ![id].updated = date,
                                      ![id].archived = as_str(event.d["ref"])]
               [] OTHER ->
                    [task_info EXCEPT ![id].updated = date]

\* the match on event.op in build_index: task_info after one event
index_event(task_info, event) ==
    LET date == FormatDate(event.ts)
        id == event.id
    IN  IF event.op = "create"
        THEN Insert(task_info, id, IndexInfo("open", date, date, None, None))
        ELSE IF id \notin DOMAIN task_info THEN task_info
        ELSE CASE event.op = "complete" ->
                    [task_info EXCEPT ![id].status = "complete", ![id].updated = date,
                                      ![id].completed = Some(date)]
               [] event.op = "reopen" ->
                    [task_info EXCEPT ![id].status = "open", ![id].updated = date,
                                      ![id].completed = None]
               [] event.op = "archive" ->
                    [task_info EXCEPT ![id].updated = date,
                                      ![id].archived = as_str(event.d["ref"])]
               [] OTHER ->
                    [task_info EXCEPT ![id].updated = date]

\* the inner loop of build_index over the events of one file
RECURSIVE index_events(_, _, _, _)
index_events(task_info, task_files, events, filename) ==
    IF events = <<>> THEN [task_info |-> task_info, task_files |-> task_files]
    ELSE index_events(index_event(task_info, Head(events)),
                      task_files \cup {<<Head(events).id, filename>>},
                      Tail(events), filename)

\* an index built from the rollups and the daily logs
IndexFiles_with_archive(alisting, elisting, aexists) ==
    ReadOrder(alisting, elisting, aexists)

\* the files build_index reads, in the order it reads them
IndexFiles(alisting, elisting, aexists) ==
    LET ef == get_event_files(elisting)
    IN  [i \in 1..Len(ef) |-> <<"events", ef[i]>>]

\* the outer loop of build_index over the files still to read
RECURSIVE IndexFrom(_, _, _, _, _)
IndexFrom(files, edir, adir, task_info, task_files) ==
    IF files = <<>>
    THEN [ok |-> TRUE, task_info |-> task_info, task_files |-> task_files, file |-> <<>>, line |-> 0]
    ELSE LET f == Head(files)
             parsed == parse_events_from_file(FileLines(edir, adir, f))
             folded == index_events(task_info, task_files, parsed.events, f[2])
         IN  IF ~parsed.ok
             THEN [ok |-> FALSE, task_info |-> <<>>, task_files |-> {}, file |-> f, line |-> parsed.line]
             ELSE IndexFrom(Tail(files), edir, adir, folded.task_info, folded.task_files)

\* the file names recorded for a task when each insert replaces the one before
FilesOf_last_file(task_files, id) ==
    LET names == {p[2] : p \in {q \in task_files : q[1] = id}}
    IN  IF names = {} THEN <<>> ELSE <<CHOOSE x \in names : \A y \in names : y <= x>>

\* the file names recorded for a task: the HashSet collected and sorted
FilesOf(task_files, id) ==
    LET names == {p[2] : p \in {q \in task_files : q[1] = id}}
    IN  SortFiles(CHOOSE l \in Listings(names) : TRUE)

\* build_index(ctx), given the orders read_dir enumerated the directories in:
\* the map of TaskIndex entries, or the failure to parse a file
build_index(edir, adir, aexists, elisting, alisting) ==
    LET built == IndexFrom(IndexFiles(alisting, elisting, aexists), edir, adir, <<>>, {})
    IN  [ok |-> built.ok, file |-> built.file, line |-> built.line,
         tasks |-> [id \in DOMAIN built.task_info |->
                       [status |-> built.task_info[id].status,
                        created |-> built.task_info[id].created,
                        updated |-> built.task_info[id].updated,
                        completed |-> built.task_info[id].completed,
                        files |-> FilesOf(built.task_files, id),
                        archived |-> built.task_info[id].archived]]]

----------------------------------------------------------------------------
(* The index over logs written from outside *)

IndexDays == {1, 2}
IndexMonths == {0}

\* the lines a log of the index runs may hold
IndexLines ==
    {to_string(Ev("create", "T1", 1, "alice", "main", EmptyDoc)),
     to_string(Ev("complete", "T1", 3, "alice", "main", EmptyDoc)),
     to_string(Ev("reopen", "T1", 5, "alice", "main", EmptyDoc)),
     to_string(Ev("archive", "T1", 5, "alice", "main", Doc([ref |-> JStr("0")]))),
     to_string(Ev("create", "T2", 1, "alice", "main", EmptyDoc)),
     to_string(Ev("comment", "T2", 5, "alice", "main", Doc([body |-> JStr("wip")]))),
     GarbageLine}

\* one call of build_index(ctx)
BuildIndex ==
    /\ \E el \in Listings(DOMAIN events_dir), al \in Listings(DOMAIN archive_dir) :
          last' = [op |-> "build_index"]
                  @@ build_index(events_dir, archive_dir, archive_exists, el, al)
    /\ prev' = last
    /\ UNCHANGED <<app, index_file, state_file, now, events_dir, archive_exists, archive_dir, tasks, replayed>>

IndexNext ==
    \/ \E f \in IndexDays, line \in IndexLines : WriteEventLine(f, line)
    \/ \E f \in IndexMonths, line \in IndexLines : WriteArchiveLine(f, line)
    \/ BuildIndex

SpecIndex == LogInit /\ [][IndexNext]_vars

IndexBuilt == last.op = "build_index" /\ last.ok

\* C16: every index entry agrees with the task materialized from the same logs,
\* rollups included: same status, completed on the same date, same archived ref,
\* created and updated on the same dates.
C16_IndexAgreesWithState ==
    IndexBuilt =>
        \A st \in StatesNow :
            st.ok => \A id \in DOMAIN last.tasks :
                /\ id \in DOMAIN st.tasks
                /\ last.tasks[id].status = st.tasks[id].status
                /\ last.tasks[id].completed
                      = (IF st.tasks[id].completed = <<>> THEN <<>>
                         ELSE <<st.tasks[id].completed[1] \div TicksPerDay>>)
                /\ last.tasks[id].archived = st.tasks[id].archived
                /\ last.tasks[id].created = st.tasks[id].created \div TicksPerDay
                /\ last.tasks[id].updated = st.tasks[id].updated \div TicksPerDay

\* an index entry of a task whose events lie in a daily log and in a rollup
C16_Witness ==
    /\ IndexBuilt
    /\ "T1" \in DOMAIN last.tasks
    /\ last.tasks["T1"].status = "open"
    /\ last.tasks["T1"].updated = 2
    /\ \E m \in DOMAIN archive_dir : \E i \in 1..Len(archive_dir[m]) :
          archive_dir[m][i].id = JStr("T1")
    /\ \E st \in StatesNow : st.ok

\* C17: build_index succeeds iff every daily log parses, and then has one entry
\* per task id with a Create in a daily log and none for another id; the entries
\* are those built with no rollup at all.
C17_IndexFromActiveLogsOnly ==
    last.op = "build_index" =>
        /\ last.ok <=> (\A f \in DOMAIN events_dir : BadLines(events_dir[f]) = {})
        /\ last.ok =>
            /\ DOMAIN last.tasks = CreatedIds(DiscoveryOrder(events_dir))
            /\ \A el \in Listings(DOMAIN events_dir) :
                  last.tasks = build_index(events_dir, <<>>, FALSE, el, <<>>).tasks

\* a rollup that creates one task, daily logs that create another task and only
\* comment on the first
C17_Witness ==
    /\ IndexBuilt
    /\ DOMAIN last.tasks = {"T1"}
    /\ \E f \in DOMAIN events_dir : \E i \in 1..Len(events_dir[f]) :
          events_dir[f][i].id = JStr("T2") /\ events_dir[f][i].op = JStr("comment")
    /\ \E m \in DOMAIN archive_dir : \E i \in 1..Len(archive_dir[m]) :
          archive_dir[m][i].id = JStr("T2") /\ archive_dir[m][i].op = JStr("create")

----------------------------------------------------------------------------
(* Claims about Create and the link lists *)

\* C21: a Create for an id that exists replaces the task by the task the same
\* Create gives on an empty map: status open, no comments, no completed,
\* resolution or archived, the three created fields from this Create; every other
\* task stays as it was.
C21_LastCreateWins ==
    Applied("create") =>
        LET id == last.event.id
            fresh == apply_event(<<>>, last.event)[id]
        IN  /\ tasks[id] = fresh
            /\ tasks[id].status = "open"
            /\ tasks[id].comments = <<>>
            /\ tasks[id].completed = <<>> /\ tasks[id].resolution = <<>>
            /\ tasks[id].archived = <<>>
            /\ tasks[id].created = last.event.ts
            /\ tasks[id].created_by = last.event.by
            /\ tasks[id].created_branch = last.event.branch
            /\ tasks[id].blocks = (IF last.event.d["blocks"].t = "arr"
                                   THEN StrItems(last.event.d["blocks"].a) ELSE <<>>)
            /\ \A other \in DOMAIN last.before \ {id} : tasks[other] = last.before[other]

\* a task created with links, completed, then created again with a bare payload
C21_Witness ==
    /\ Applied("create")
    /\ last.before[last.event.id].status = "complete"
    /\ last.before[last.event.id].blocks # <<>>
    /\ last.event.d["blocks"] = Absent
    /\ tasks[last.event.id].status = "open"

NoDuplicates(seq) == \A i, j \in 1..Len(seq) : seq[i] = seq[j] => i = j

\* C30 (as claimed): after any event sequence no task has the same id twice in
\* blocks or twice in blocked_by.
C30_LinkListsAreSets ==
    \A id \in DOMAIN tasks :
        NoDuplicates(tasks[id].blocks) /\ NoDuplicates(tasks[id].blocked_by)

----------------------------------------------------------------------------
(* Replay of one task's events with payloads of every shape apply_event tells apart *)

FieldPayloads(op) ==
    CASE op = "create" ->
            {EmptyDoc,
             Doc([title |-> JStr("Fix bug"), description |-> JStr("it crashes"),
                  priority |-> JStr("p1"), tags |-> JArr(<<JStr("ui")>>),
                  assignee |-> JStr("bob"), parent |-> JStr("T4"),
                  blocks |-> JArr(<<JStr("T2")>>), blocked_by |-> JArr(<<JStr("T3")>>)])}
      [] op = "update" ->
            {EmptyDoc,
             Doc([title |-> JStr("Fix it")]),
             Doc([description |-> JStr("more"), tags |-> JArr(<<JStr("api"), JNum(7)>>)]),
             Doc([priority |-> JStr("p2")]),
             Doc([description |-> JNull])}
      [] op = "assign" ->
            {Doc([to |-> JStr("carol")]), Doc([to |-> JNull]), EmptyDoc, Doc([to |-> JNum(5)])}
      [] op = "comment" ->
            {Doc([body |-> JStr("wip")]), Doc([body |-> JStr("see"), ref |-> JStr("abc")])}
      [] op \in {"link", "unlink"} ->
            {Doc([rel |-> JStr(rel), target |-> JStr(target)]) :
                rel \in {"blocks", "blocked_by", "parent"}, target \in {"T2", "T4"}}
            \cup {Doc([rel |-> JStr("duplicates"), target |-> JStr("T2")]),
                  Doc([rel |-> JStr("blocks")])}
      [] op = "complete" -> {EmptyDoc}
      [] op = "reopen" -> {EmptyDoc}
      [] op = "archive" -> {Doc([ref |-> JStr("0")])}

\* the instant an event of each operation is stamped with
FieldTime(op) == IF op = "create" THEN 1 ELSE IF op \in {"link", "comment"} THEN 2 ELSE 3

FieldEvents ==
    UNION {{Ev(op, "T1", FieldTime(op), IF op = "comment" THEN "carol" ELSE "alice", "main", d) :
                d \in FieldPayloads(op)} : op \in Operations}

FieldsNext == \E event \in FieldEvents : Replay(event)

SpecFields == ReplayInit /\ [][FieldsNext]_vars

\* the fields of a task other than those named
Others(task, named) == [field \in DOMAIN task \ named |-> task[field]]
\* what a payload value says an optional text field is
PayloadText(v) == IF v.t = "str" THEN <<v.s>> ELSE <<>>

\* C26 (as claimed): an Update on an existing task overwrites each of title,
\* description, priority and tags that is present in the payload with the
\* payload's value, leaves those absent from the payload unchanged, and changes no
\* field other than those four and updated.
C26_UpdateOverwritesPresent ==
    Applied("update") =>
        LET t0 == last.before[last.event.id]
            t1 == tasks[last.event.id]
            d == last.event.d
        IN  /\ t1.title = (IF is_present(d["title"]) THEN d["title"].s ELSE t0.title)
            /\ t1.description = (IF is_present(d["description"])
                                 THEN PayloadText(d["description"]) ELSE t0.description)
            /\ t1.priority = (IF is_present(d["priority"])
                              THEN PayloadText(d["priority"]) ELSE t0.priority)
            /\ t1.tags = (IF is_present(d["tags"]) THEN StrItems(d["tags"].a) ELSE t0.tags)
            /\ t1.updated = last.event.ts
            /\ Others(t1, {"title", "description", "priority", "tags", "updated"})
                  = Others(t0, {"title", "description", "priority", "tags", "updated"})

\* C26 (amended): an Update on an existing task overwrites each of title,
\* description and priority that the payload holds as a string, and tags when the
\* payload holds an array (with the array's strings); a field the payload lacks
\* or holds with another type, null included, stays as it was, updated becomes the
\* event's timestamp and no other field changes.
C26_UpdateOverwritesStrings ==
    Applied("update") =>
        LET t0 == last.before[last.event.id]
            t1 == tasks[last.event.id]
            d == last.event.d
        IN  /\ t1.title = (IF d["title"].t = "str" THEN d["title"].s ELSE t0.title)
            /\ t1.description = (IF d["description"].t = "str"
                                 THEN <<d["description"].s>> ELSE t0.description)
            /\ t1.priority = (IF d["priority"].t = "str"
                              THEN <<d["priority"].s>> ELSE t0.priority)
            /\ t1.tags = (IF d["tags"].t = "arr" THEN StrItems(d["tags"].a) ELSE t0.tags)
            /\ t1.updated = last.event.ts
            /\ Others(t1, {"title", "description", "priority", "tags", "updated"})
                  = Others(t0, {"title", "description", "priority", "tags", "updated"})

\* an Update with description and tags only, on a task that had all four fields
C26_Witness ==
    /\ Applied("update")
    /\ last.event.d["description"] = JStr("more")
    /\ last.before[last.event.id].priority = <<"p1">>
    /\ tasks[last.event.id].priority = <<"p1">>
    /\ tasks[last.event.id].title = "Fix bug"
    /\ tasks[last.event.id].description = <<"more">>
    /\ tasks[last.event.id].tags = <<"api">>

\* C27 (as claimed): an Assign on an existing task sets assignee to the payload's
\* to, an explicit null clears it, nothing but an explicit null clears it, and no
\* field other than assignee and updated changes.
C27_AssignClearsOnNullOnly ==
    Applied("assign") =>
        LET t0 == last.before[last.event.id]
            t1 == tasks[last.event.id]
            to == last.event.d["to"]
        IN  /\ to.t = "str" => t1.assignee = <<to.s>>
            /\ to = JNull => t1.assignee = <<>>
            /\ (t0.assignee # <<>> /\ t1.assignee = <<>>) => to = JNull
            /\ t1.updated = last.event.ts
            /\ Others(t1, {"assignee", "updated"}) = Others(t0, {"assignee", "updated"})

\* C27 (amended): an Assign on an existing task sets assignee to the payload's to
\* when it is a string and clears the assignee otherwise: on an explicit null, on
\* a payload without to, and on a to of another type; no field other than assignee
\* and updated changes.
C27_Assign ==
    Applied("assign") =>
        LET t0 == last.before[last.event.id]
            t1 == tasks[last.event.id]
            to == last.event.d["to"]
        IN  /\ t1.assignee = (IF to.t = "str" THEN <<to.s>> ELSE <<>>)
            /\ t1.updated = last.event.ts
            /\ Others(t1, {"assignee", "updated"}) = Others(t0, {"assignee", "updated"})

\* an assigned task that an Assign without to left unassigned
C27_Witness ==
    /\ Applied("assign")
    /\ last.before[last.event.id].assignee = <<"bob">>
    /\ last.event.d["to"] = Absent
    /\ tasks[last.event.id].assignee = <<>>

\* C28: Unlink removes the target from blocks or blocked_by as rel says, clears
\* parent only when parent equals the target, and after a Link of an absent
\* target (or onto an unset parent) the Unlink of the same rel and target gives
\* back the blocks, blocked_by and parent the task had before the Link.
C28_UnlinkInvertsLink ==
    Applied("unlink") =>
        LET id == last.event.id
            t0 == last.before[id]
            t1 == tasks[id]
            rel == last.event.d["rel"].s
            X == last.event.d["target"].s
        IN  /\ t1.blocks = (IF rel = "blocks" THEN SelectSeq(t0.blocks, LAMBDA x : x # X)
                            ELSE t0.blocks)
            /\ t1.blocked_by = (IF rel = "blocked_by"
                                THEN SelectSeq(t0.blocked_by, LAMBDA x : x # X)
                                ELSE t0.blocked_by)
            /\ t1.parent = (IF rel = "parent" /\ t0.parent = <<X>> THEN <<>> ELSE t0.parent)
            /\ (/\ prev.op = "apply_event" /\ prev.event.op = "link"
                /\ prev.event.id = id /\ id \in DOMAIN prev.before
                /\ prev.event.d = last.event.d
                /\ (rel = "parent" => prev.before[id].parent = <<>>)
                /\ (rel \in {"blocks", "blocked_by"} => ~Contains(prev.before[id][rel], X)))
               => /\ t1.blocks = prev.before[id].blocks
                  /\ t1.blocked_by = prev.before[id].blocked_by
                  /\ t1.parent = prev.before[id].parent

\* a task with a parent and links of its own that was linked to a new target and
\* unlinked from it again
C28_Witness ==
    /\ Applied("unlink")
    /\ prev.op = "apply_event" /\ prev.event.op = "link"
    /\ prev.event.d = last.event.d
    /\ last.event.d["rel"] = JStr("blocks")
    /\ last.event.d["target"] = JStr("T4")
    /\ last.event.id \in DOMAIN prev.before
    /\ prev.before[last.event.id].blocks = <<"T2">>
    /\ last.before[last.event.id].blocks = <<"T2", "T4">>
    /\ tasks[last.event.id].blocks = <<"T2">>
    /\ tasks[last.event.id].parent = <<"T4">>

\* C29: a Comment on an existing task appends one comment, built from the
\* event's timestamp, actor, body and ref, at the end; under every event but a
\* Create of the task's id the comments before are a prefix of the comments after.
C29_CommentsAppendOnly ==
    last.op = "apply_event" =>
        /\ Applied("comment") =>
              tasks[last.event.id].comments
                = Append(last.before[last.event.id].comments,
                         [ts |-> last.event.ts, by |-> last.event.by,
                          body |-> (IF last.event.d["body"].t = "str"
                                    THEN last.event.d["body"].s ELSE ""),
                          ref |-> PayloadText(last.event.d["ref"])])
        /\ \A id \in DOMAIN last.before :
              ~(last.event.op = "create" /\ last.event.id = id)
                 => /\ id \in DOMAIN tasks
                    /\ IsPrefix(last.before[id].comments, tasks[id].comments)

\* a second comment, with a ref, after a first one without
C29_Witness ==
    /\ Applied("comment")
    /\ Len(last.before[last.event.id].comments) = 1
    /\ Len(tasks[last.event.id].comments) = 2
    /\ tasks[last.event.id].comments[1].ref = <<>>
    /\ tasks[last.event.id].comments[2].ref = <<"abc">>
    /\ tasks[last.event.id].comments[2].by = "carol"

----------------------------------------------------------------------------
(* Claims about the branch stamped on Archive markers *)

\* C23 (as claimed): when the branch cannot be determined, because git fails or
\* cannot be run at all, archive_tasks still succeeds and stamps every Archive
\* marker with the branch "main".
C23_BranchBestEffort ==
    (ArchiveRan /\ ~last.dry_run /\ last.git \in {"spawn_error", "exit_failure"}) =>
        LET added == Appended(last.events_before, events_dir, Today) IN
        /\ last.ok
        /\ Len(added) = Len(last.ret)
        /\ \A i \in 1..Len(added) : added[i].branch = JStr("main")

----------------------------------------------------------------------------
(* Claims about the schema version check *)

\* the JSON lines <<group, file, line number>> of the logs that carry a version
Versioned ==
    {p \in UNION {{<<"events", f, i>> : i \in 1..Len(events_dir[f])} : f \in DOMAIN events_dir}
            \cup UNION {{<<"archive", f, i>> : i \in 1..Len(archive_dir[f])} :
                            f \in IF archive_exists THEN DOMAIN archive_dir ELSE {}} :
        LineAt(p).kind = "json" /\ is_present(LineAt(p).v)}

\* C24 (as claimed): the scan records one unknown-version warning for every line
\* whose schema version is anything other than 1, none for a line of version 1,
\* and never an error for the version.
C24_VersionWarning ==
    ValidateRan =>
        /\ \A p \in Versioned :
              Cardinality({k \in 1..Len(last.warnings) :
                  last.warnings[k] = Finding("unknown_version", <<p[1], p[2]>>, p[3], <<>>)})
                = IF LineAt(p).v = JNum(1) THEN 0 ELSE 1
        /\ WithKind(last.errors, {"unknown_version"}) = {}

----------------------------------------------------------------------------
(* The derived files: rebuild and load_or_materialize_state *)

\* the Option fields of Task, serialized with skip_serializing_if = "Option::is_none"
OptionFields ==
    {"description", "priority", "assignee", "completed", "resolution", "parent", "archived"}

\* an Option field in the JSON object: left out when None
SerializeOption(o) ==
    IF IsNone(o) THEN [present |-> FALSE, value |-> None] ELSE [present |-> TRUE, value |-> o]
\* an Option field read back: a missing key is None
DeserializeOption(j) == IF j.present THEN Some(Unwrap(j.value)) ELSE None

SerializeComment(c) == [c EXCEPT !.ref = SerializeOption(@)]
DeserializeComment(j) == [j EXCEPT !.ref = DeserializeOption(@)]

SerializeTask(task) ==
    [field \in DOMAIN task |->
        IF field \in OptionFields THEN SerializeOption(task[field])
        ELSE IF field = "comments"
        THEN [i \in 1..Len(task.comments) |-> SerializeComment(task.comments[i])]
        ELSE task[field]]

DeserializeTask(json) ==
    [field \in DOMAIN json |->
        IF field \in OptionFields THEN DeserializeOption(json[field])
        ELSE IF field = "comments"
        THEN [i \in 1..Len(json.comments) |-> DeserializeComment(json.comments[i])]
        ELSE json[field]]

\* serde_json::to_string_pretty(&state), for State{tasks, rebuilt}
state_to_json(map, clock) ==
    [tasks |-> [id \in DOMAIN map |-> SerializeTask(map[id])], rebuilt |-> clock]

\* serde_json::from_str::<State>(&content)
state_from_json(json) ==
    [tasks |-> [id \in DOMAIN json.tasks |-> DeserializeTask(json.tasks[id])],
     rebuilt |-> json.rebuilt]

\* serde_json::to_string_pretty(&index), for Index{tasks, rebuilt}
index_to_json(entries, clock) ==
    [tasks |-> [id \in DOMAIN entries |->
                   [entries[id] EXCEPT !.completed = SerializeOption(@),
                                       !.archived = SerializeOption(@)]],
     rebuilt |-> clock]

\* rebuild(ctx): the two derived files afterwards
rebuild(ifile, sfile, edir, adir, aexists, clock, elisting, alisting) ==
    LET index == build_index(edir, adir, aexists, elisting, alisting)
        state == materialize(edir, adir, aexists, elisting, alisting)
    IN  IF ~index.ok
        THEN [ok |-> FALSE, index_file |-> ifile, state_file |-> sfile]
        ELSE IF ~state.ok
        THEN [ok |-> FALSE, index_file |-> Some(index_to_json(index.tasks, clock)),
              state_file |-> sfile]
        ELSE [ok |-> TRUE, index_file |-> Some(index_to_json(index.tasks, clock)),
              state_file |-> Some(state_to_json(state.tasks, clock))]

\* a loader that replays the logs whether or not the snapshot exists
load_or_materialize_state_fresh(sfile, edir, adir, aexists, elisting, alisting) ==
    LET state == materialize(edir, adir, aexists, elisting, alisting)
    IN  [ok |-> state.ok, cached |-> IsSome(sfile), tasks |-> state.tasks]

\* load_or_materialize_state(ctx)
load_or_materialize_state(sfile, edir, adir, aexists, elisting, alisting) ==
    IF IsSome(sfile)
    THEN [ok |-> TRUE, cached |-> TRUE, tasks |-> state_from_json(Unwrap(sfile)).tasks]
    ELSE LET state == materialize(edir, adir, aexists, elisting, alisting)
         IN  [ok |-> state.ok, cached |-> FALSE, tasks |-> state.tasks]

----------------------------------------------------------------------------
(* Queries: list and show *)

\* a format match whose fallback is Json
OutputFormatOf_fallback_json(format) ==
    CASE format = "table" -> "Table"
      [] format = "ids" -> "Ids"
      [] OTHER -> "Json"

\* the match on format.as_str() in main
OutputFormatOf(format) ==
    CASE format = "json" -> "Json"
      [] format = "ids" -> "Ids"
      [] OTHER -> "Table"

\* the filter closure of list_tasks; the three optional filters are Options
ListFilter(task, status_filter, assignee, tag, priority) ==
    /\ CASE status_filter = Some("open") -> task.status = "open"
          [] status_filter = Some("complete") -> task.status = "complete"
          [] OTHER -> TRUE
    /\ IsSome(assignee) => task.assignee = assignee
    /\ IsSome(tag) => Contains(task.tags, Unwrap(tag))
    /\ IsSome(priority) => task.priority = priority

\* tasks.sort_by_key(|t| t.created): a stable sort; ids stand for the tasks
RECURSIVE InsertByCreated(_, _, _)
InsertByCreated(sorted, id, map) ==
    IF sorted = <<>> THEN <<id>>
    ELSE IF map[id].created < map[Head(sorted)].created
         THEN <<id>> \o sorted
         ELSE <<Head(sorted)>> \o InsertByCreated(Tail(sorted), id, map)

RECURSIVE SortByCreated(_, _)
SortByCreated(ids, map) ==
    IF ids = <<>> THEN <<>>
    ELSE InsertByCreated(SortByCreated(SubSeq(ids, 1, Len(ids) - 1), map), ids[Len(ids)], map)

\* one row of the table; the titles of the model are shorter than 50 characters
TableRow(task) ==
    [id |-> task.id, priority |-> OrElse(task.priority, "-"),
     assignee |-> OrElse(task.assignee, "-"), title |-> task.title]

\* what list_tasks prints, given the loaded state and the order the map iterates in
list_tasks(map, status_filter, assignee, tag, priority, format, iteration) ==
    LET order == SortByCreated(
                    SelectSeq(iteration,
                              LAMBDA id : ListFilter(map[id], status_filter, assignee, tag, priority)),
                    map)
    IN  CASE format = "Json" ->
                [kind |-> "json", ids |-> order, rows |-> [i \in 1..Len(order) |-> SerializeTask(map[order[i]])]]
          [] format = "Ids" ->
                [kind |-> "ids", ids |-> order, rows |-> order]
          [] format = "Table" ->
                IF order = <<>> THEN [kind |-> "no_tasks", ids |-> order, rows |-> <<>>]
                ELSE [kind |-> "table", ids |-> order,
                      rows |-> [i \in 1..Len(order) |-> TableRow(map[order[i]])]]

\* what show_task finds: the task, or "Task not found"
show_task(map, id) ==
    IF id \in DOMAIN map THEN [ok |-> TRUE, task |-> Some(map[id])]
    ELSE [ok |-> FALSE, task |-> None]

----------------------------------------------------------------------------
(* Queries and rebuilds over logs written from outside *)

QueryDays == {1}

QueryLines ==
    {to_string(Ev("create", "T1", 1, "alice", "main", Doc([title |-> JStr("Fix bug")]))),
     to_string(Ev("complete", "T1", 3, "alice", "main", EmptyDoc)),
     to_string(Ev("archive", "T1", 5, "@fabric", "main", Doc([ref |-> JStr("0")]))),
     to_string(Ev("create", "T2", 1, "bob", "main", Doc([assignee |-> JStr("bob")]))),
     GarbageLine}

\* the --format strings tried
FormatArgs == {"table", "json", "ids", "unknown", ""}

\* the <<assignee, format>> arguments fabric list is run with
ListArgs == ({None} \X FormatArgs) \cup {<<Some("bob"), "ids">>}

\* fabric list --status .. --assignee .. --format ..
ListTasks(status, assignee, format) ==
    /\ \E el \in Listings(DOMAIN events_dir), al \in Listings(DOMAIN archive_dir) :
          LET loaded == load_or_materialize_state(state_file, events_dir, archive_dir,
                                                  archive_exists, el, al)
              fmt == OutputFormatOf(format)
          IN  IF ~loaded.ok
              THEN last' = [op |-> "list", ok |-> FALSE, cached |-> loaded.cached,
                            loaded |-> <<>>, format_arg |-> format, format |-> fmt,
                            output |-> [kind |-> "error", ids |-> <<>>, rows |-> <<>>]]
              ELSE \E iteration \in Listings(DOMAIN loaded.tasks) :
                       last' = [op |-> "list", ok |-> TRUE, cached |-> loaded.cached,
                                loaded |-> loaded.tasks, format_arg |-> format, format |-> fmt,
                                output |-> list_tasks(loaded.tasks, Some(status), assignee,
                                                      None, None, fmt, iteration)]
    /\ prev' = last
    /\ UNCHANGED <<app, index_file, state_file, now, events_dir, archive_exists, archive_dir,
                   tasks, replayed>>

\* fabric show <id>
ShowTask(id) ==
    /\ \E el \in Listings(DOMAIN events_dir), al \in Listings(DOMAIN archive_dir) :
          LET loaded == load_or_materialize_state(state_file, events_dir, archive_dir,
                                                  archive_exists, el, al)
          IN  last' = [op |-> "show", ok |-> loaded.ok /\ show_task(loaded.tasks, id).ok,
                       cached |-> loaded.cached, loaded_ok |-> loaded.ok,
                       loaded |-> loaded.tasks, id |-> id]
    /\ prev' = last
    /\ UNCHANGED <<app, index_file, state_file, now, events_dir, archive_exists, archive_dir,
                   tasks, replayed>>

\* fabric rebuild
Rebuild ==
    /\ \E el \in Listings(DOMAIN events_dir), al \in Listings(DOMAIN archive_dir) :
          LET r == rebuild(index_file, state_file, events_dir, archive_dir, archive_exists,
                           now, el, al)
          IN  /\ index_file' = r.index_file
              /\ state_file' = r.state_file
              /\ last' = [op |-> "rebuild", ok |-> r.ok]
    /\ prev' = last
    /\ UNCHANGED <<app, now, events_dir, archive_exists, archive_dir, tasks, replayed>>

\* a fresh checkout: the derived files are ignored by version control
DropDerived ==
    /\ IsSome(index_file) \/ IsSome(state_file)
    /\ index_file' = None
    /\ state_file' = None
    /\ last' = [op |-> "drop"]
    /\ prev' = last
    /\ UNCHANGED <<app, now, events_dir, archive_exists, archive_dir, tasks, replayed>>

QueryNext ==
    \/ \E f \in QueryDays, line \in QueryLines : WriteEventLine(f, line)
    \/ \E args \in ListArgs : ListTasks("all", args[1], args[2])
    \/ \E id \in TaskIds : ShowTask(id)
    \/ Rebuild
    \/ DropDerived

SpecQuery == LogInit /\ [][QueryNext]_vars

QueryRan == last.op \in {"list", "show"}
\* whether the state was loaded, and the snapshot file as a State
Loaded(outcome) == IF outcome.op = "show" THEN outcome.loaded_ok ELSE outcome.ok
Snapshot == state_from_json(Unwrap(state_file)).tasks

\* C22: list and show read the snapshot whenever the snapshot file exists and
\* materialize the logs when it does not; what they see is materialize of the
\* current logs when the file is absent, right after a rebuild and from one query
\* to the next, and the snapshot as rebuild left it, whatever was appended since,
\* when the file exists.
C22_CacheOrMaterialize ==
    /\ QueryRan =>
          /\ last.cached = IsSome(state_file)
          /\ ~last.cached => \A st \in StatesNow :
                /\ Loaded(last) = st.ok
                /\ st.ok => last.loaded = st.tasks
          /\ last.cached => (Loaded(last) /\ last.loaded = Snapshot)
          /\ (prev.op = "rebuild" /\ prev.ok) => \A st \in StatesNow :
                st.ok /\ Loaded(last) /\ last.loaded = st.tasks
          /\ (prev.op \in {"list", "show"} /\ Loaded(prev) /\ Loaded(last)) =>
                last.loaded = prev.loaded
    /\ (last.op = "rebuild" /\ last.ok) =>
          /\ IsSome(state_file)
          /\ \A st \in StatesNow : st.ok /\ Snapshot = st.tasks

\* a query that saw a completed task as not archived, from a snapshot taken
\* before the Archive marker was appended
C22_Witness ==
    /\ QueryRan /\ last.cached
    /\ "T1" \in DOMAIN last.loaded
    /\ last.loaded["T1"].status = "complete"
    /\ last.loaded["T1"].archived = <<>>
    /\ \E st \in StatesNow : st.ok /\ st.tasks["T1"].archived = <<"0">>

\* C25: the format chosen from the --format string is total: "table" gives
\* Table, "json" gives Json, "ids" gives Ids, any other string, the empty one
\* included, gives Table, and the listing is printed in the format chosen.
C25_FormatTotal ==
    last.op = "list" =>
        /\ last.format \in {"Table", "Json", "Ids"}
        /\ last.format_arg = "table" => last.format = "Table"
        /\ last.format_arg = "json" => last.format = "Json"
        /\ last.format_arg = "ids" => last.format = "Ids"
        /\ last.format_arg \notin {"table", "json", "ids"} => last.format = "Table"
        /\ last.ok =>
              last.output.kind = (CASE last.format = "Json" -> "json"
                                    [] last.format = "Ids" -> "ids"
                                    [] last.format = "Table" ->
                                          IF last.output.ids = <<>> THEN "no_tasks" ELSE "table")

\* a listing asked for with the empty format string and printed as a table
C25_Witness ==
    /\ last.op = "list" /\ last.ok
    /\ last.format_arg = ""
    /\ last.format = "Table"
    /\ last.output.kind = "table"
    /\ Len(last.output.rows) = 2

----------------------------------------------------------------------------
(* Claims about the fields every operation maintains *)

Latest(S) == CHOOSE x \in S : \A y \in S : y <= x
\* the positions in the replayed sequence of the events for a task id
EventsFor(id) == {i \in 1..Len(replayed) : replayed[i].id = id}
\* the position of the last event replayed for id at or after its last Create
LastTouch(id) ==
    LET creates == {i \in EventsFor(id) : replayed[i].op = "create"}
    IN  Latest({i \in EventsFor(id) : i >= Latest(creates)})

\* C31: after any event sequence, updated of every task is the timestamp of the
\* last event replayed for its id at or after its last Create, also when that
\* event changed no other field (a Link or Unlink with an unrecognized rel or no
\* target, an Update with an empty payload) and when that timestamp lies before
\* the updated value the task had.
C31_UpdatedIsLastTouch ==
    /\ \A id \in DOMAIN tasks : tasks[id].updated = replayed[LastTouch(id)].ts
    /\ \A op \in Operations \ {"create"} :
          Applied(op) => tasks[last.event.id].updated = last.event.ts

\* a Link with an unrecognized rel that left every field but updated as it was
\* and moved updated back, after an Unlink without target that did the same
C31_Witness ==
    /\ Applied("link")
    /\ last.event.d["rel"] = JStr("duplicates")
    /\ Others(tasks[last.event.id], {"updated"}) = Others(last.before[last.event.id], {"updated"})
    /\ last.before[last.event.id].updated = 3
    /\ tasks[last.event.id].updated = 2
    /\ prev.op = "apply_event" /\ prev.event.op = "unlink"
    /\ prev.event.d["target"] = Absent
    /\ prev.event.id \in DOMAIN prev.before
    /\ Others(last.before[last.event.id], {"updated"}) = Others(prev.before[last.event.id], {"updated"})

\* C33: in every state reached by replaying any event sequence, each task has
\* status complete iff completed is set, iff resolution is set.
C33_CompletionFieldsAgree ==
    \A id \in DOMAIN tasks :
        /\ tasks[id].status = "complete" <=> tasks[id].completed # <<>>
        /\ tasks[id].completed # <<>> <=> tasks[id].resolution # <<>>

\* a task completed with a payload whose resolution is no string, then reopened
C33_Witness ==
    /\ Applied("reopen")
    /\ prev.op = "apply_event" /\ prev.event.op = "complete"
    /\ prev.event.d["resolution"] = JNum(1)
    /\ last.before[last.event.id].status = "complete"
    /\ last.before[last.event.id].completed = <<prev.event.ts>>
    /\ last.before[last.event.id].resolution = <<"done">>
    /\ tasks[last.event.id].status = "open"
    /\ tasks[last.event.id].completed = <<>>
    /\ tasks[last.event.id].resolution = <<>>

----------------------------------------------------------------------------
(* Claims about the files an index entry names *)

\* the daily logs holding at least one event for a task id
LogsHolding(id) ==
    {f \in DOMAIN events_dir :
        \E i \in 1..Len(events_dir[f]) :
            events_dir[f][i].kind = "json" /\ events_dir[f][i].id = JStr(id)}

\* C32: for every task id in the index, files is exactly the set of daily log
\* names holding at least one event with that id, events before the id's Create
\* included, each name once and in ascending order.
C32_IndexFilesAreContributors ==
    IndexBuilt =>
        \A id \in DOMAIN last.tasks :
            LET files == last.tasks[id].files
            IN  /\ Elems(files) = LogsHolding(id)
                /\ \A i, j \in 1..Len(files) : i < j => files[i] < files[j]

\* a task whose Create lies in the second daily log, after an event for it in
\* the first that no replay applies, and with a rollup holding an event for it too
C32_Witness ==
    /\ IndexBuilt
    /\ "T1" \in DOMAIN last.tasks
    /\ last.tasks["T1"].files = <<1, 2>>
    /\ \A i \in 1..Len(events_dir[1]) : events_dir[1][i].op # JStr("create")
    /\ \E i \in 1..Len(events_dir[2]) :
          events_dir[2][i].op = JStr("create") /\ events_dir[2][i].id = JStr("T1")
    /\ \E m \in DOMAIN archive_dir : \E i \in 1..Len(archive_dir[m]) :
          archive_dir[m][i].id = JStr("T1")

----------------------------------------------------------------------------
(* Claims about what archiving leaves behind *)

\* C34 (as claimed): after a successful non-dry-run archive_tasks the materialized
\* map has the task ids it had before and every task is as it was, except that
\* each selected task has archived = the month of its completion and updated =
\* the timestamp of its Archive event; comments and links are not duplicated.
C34_ArchivePreservesState ==
    (ArchiveRan /\ ~last.dry_run /\ last.ok) =>
        \A st \in StatesNow :
            /\ st.ok
            /\ DOMAIN st.tasks = DOMAIN last.state
            /\ \A id \in DOMAIN last.state :
                  st.tasks[id] = (IF id \in Elems(last.ret)
                                  THEN [last.state[id] EXCEPT
                                           !.archived = <<FormatMonth(last.state[id].completed[1])>>,
                                           !.updated = now]
                                  ELSE last.state[id])

\* what validate may report in strict mode on the logs given
ValidationsOf(edir, adir, aexists) ==
    UNION {LET state == materialize(edir, adir, aexists, el, al)
           IN  {validate(edir, adir, aexists, TRUE, el, al, state, iteration) :
                   iteration \in Listings(IF state.ok THEN DOMAIN state.tasks ELSE {})}
           : el \in Listings(DOMAIN edir), al \in Listings(DOMAIN adir)}
Clean(result) == result.ok /\ result.errors = <<>> /\ result.warnings = <<>>

\* C35 (as claimed): when validate reports no error and no warning on the logs, it
\* still reports none, and passes in strict mode, on the logs a successful
\* non-dry-run archive_tasks that archived at least one task leaves.
C35_ArchiveKeepsLogsClean ==
    (/\ ArchiveWrote
     /\ \A result \in ValidationsOf(last.events_before, last.archive_before, last.archive_existed) :
           Clean(result))
        => \A result \in ValidationsOf(events_dir, archive_dir, archive_exists) : Clean(result)

\* the number of lines of a directory equal to the line given
Copies(dir, line) ==
    LET RECURSIVE Sum(_)
        Sum(S) == IF S = {} THEN 0
                  ELSE LET f == CHOOSE x \in S : TRUE
                       IN  Len(SelectSeq(dir[f], LAMBDA l : l = line)) + Sum(S \ {f})
    IN  Sum(DOMAIN dir)
LinesOf(dir) == UNION {Elems(dir[f]) : f \in DOMAIN dir}

\* C36 (as claimed): across any sequence of archive_tasks calls, those that fail
\* between writing the rollups and appending the Archive markers included, each
\* event of the daily logs is copied into the rollups at most once, and a task's
\* events are in a rollup iff an Archive marker for it is in the daily logs.
C36_RollupOnceAndMarked ==
    /\ \A line \in LinesOf(archive_dir) : Copies(archive_dir, line) <= Copies(events_dir, line)
    /\ \A id \in TaskIds :
          (\E line \in LinesOf(archive_dir) : line.id = JStr(id))
             <=> (\E line \in LinesOf(events_dir) :
                     line.id = JStr(id) /\ line.op = JStr("archive"))

----------------------------------------------------------------------------
(* The terminal browser over a daily log written from outside *)

BrowseDays == {1}

\* the lines the daily log of the browser runs may hold
BrowseLines ==
    {to_string(Ev("create", "T1", 1, "alice", "main", EmptyDoc)),
     to_string(Ev("create", "T2", 2, "alice", "main", Doc([priority |-> JStr("p1")]))),
     to_string(Ev("complete", "T2", 3, "alice", "main", EmptyDoc)),
     GarbageLine}

\* the browser is started: App::new() returns Ok(app)
NewApp ==
    /\ \E el \in Listings(DOMAIN events_dir), al \in Listings(DOMAIN archive_dir) :
          LET loaded == load_or_materialize_state(state_file, events_dir, archive_dir,
                                                  archive_exists, el, al)
          IN  /\ loaded.ok
              /\ \E iteration \in Listings(DOMAIN loaded.tasks) :
                     app' = new(loaded.tasks, iteration)
    /\ last' = [op |-> "new", ok |-> TRUE, before |-> app]
    /\ UNCHANGED <<index_file, state_file, now, events_dir, archive_exists, archive_dir,
                   tasks, replayed, prev>>

\* one call of app.reload_tasks()
ReloadTasks ==
    /\ \E el \in Listings(DOMAIN events_dir), al \in Listings(DOMAIN archive_dir) :
          LET loaded == load_or_materialize_state(state_file, events_dir, archive_dir,
                                                  archive_exists, el, al)
          IN  /\ \E iteration \in Listings(IF loaded.ok THEN DOMAIN loaded.tasks ELSE {}) :
                     app' = reload_tasks(app, loaded, iteration)
              /\ last' = [op |-> "reload_tasks", ok |-> loaded.ok, before |-> app]
    /\ UNCHANGED <<index_file, state_file, now, events_dir, archive_exists, archive_dir,
                   tasks, replayed, prev>>

\* a call of one of the methods of App that take no argument and cannot fail
Call(method, after) ==
    /\ app' = after
    /\ last' = [op |-> method, ok |-> TRUE, before |-> app]
    /\ UNCHANGED <<index_file, state_file, now, events_dir, archive_exists, archive_dir,
                   tasks, replayed, prev>>

NextTask == Call("next_task", next_task(app))
PreviousTask == Call("previous_task", previous_task(app))
FirstTask == Call("first_task", first_task(app))
LastTask == Call("last_task", last_task(app))
ToggleFocus == Call("toggle_focus", toggle_focus(app))
ToggleDetail == Call("toggle_detail", toggle_detail(app))

BrowseNext ==
    \/ \E f \in BrowseDays, line \in BrowseLines : WriteEventLine(f, line)
    \/ NewApp
    \/ ReloadTasks
    \/ NextTask
    \/ PreviousTask
    \/ FirstTask
    \/ LastTask
    \/ ToggleFocus
    \/ ToggleDetail

SpecBrowse == LogInit /\ [][BrowseNext]_vars

Moves == {"next_task", "previous_task", "first_task", "last_task", "reload_tasks"}

\* C37: after any sequence of next_task, previous_task, first_task, last_task and
\* reload_tasks the selected index is below the number of listed tasks whenever
\* the list is not empty; next_task stops at the last task and previous_task at
\* index 0, without wrapping around; none of the five changes focus or show_detail.
C37_SelectionInRange ==
    /\ app.tasks # <<>> => app.selected < Len(app.tasks)
    /\ app.selected >= 0
    /\ last.op = "next_task" =>
          app.selected = (IF last.before.tasks = <<>> THEN last.before.selected
                          ELSE IF last.before.selected = Len(last.before.tasks) - 1
                          THEN Len(last.before.tasks) - 1
                          ELSE last.before.selected + 1)
    /\ last.op = "previous_task" =>
          app.selected = (IF last.before.selected = 0 THEN 0 ELSE last.before.selected - 1)
    /\ last.op \in Moves =>
          /\ app.focus = last.before.focus
          /\ app.show_detail = last.before.show_detail
          /\ app.status_filter = last.before.status_filter
    /\ last.op \in Moves \ {"reload_tasks"} => app.tasks = last.before.tasks

\* the second of two listed tasks was selected, with the detail pane focused and
\* shown, when a reload listed one task only
C37_Witness ==
    /\ last.op = "reload_tasks" /\ last.ok
    /\ Len(last.before.tasks) = 2
    /\ last.before.selected = 1
    /\ Len(app.tasks) = 1
    /\ app.selected = 0
    /\ app.focus = "Detail"
    /\ app.show_detail

====
